---------------------------- MODULE Spec2Model ----------------------------
(***************************************************************************)
(* A model of chacha20.go v6.82 (type Ctx): the ChaCha block transform,    *)
(* the context state, the sequential keystream engine, the parallel chunk  *)
(* scheduler of Ctx.Encrypt and the public stream interface.               *)
(*                                                                         *)
(* Representation.  TLC's integers are 32-bit signed, so a Go uint32 is    *)
(* kept as the pair <<lo, hi>> of its 16-bit halves (value lo + 2^16*hi)   *)
(* and a Go uint64 as the tuple of its four 16-bit limbs (lowest limb     *)
(* first).  All arithmetic below is exact modulo 2^32 resp. 2^64.          *)
(* Arrays and slices are sequences: Go's a[i] is a[i + 1] here.            *)
(***************************************************************************)
EXTENDS Integers, Sequences, FiniteSets, TLC

\* ------------------------------------------------------------------------
\* uint32 / uint64 arithmetic
\* ------------------------------------------------------------------------

H16 == 65536

RECURSIVE XorBits(_, _, _)
\* a ^ b on the low k bits of two naturals
XorBits(a, b, k) ==
    IF k = 0 THEN 0
    ELSE ((a + b) % 2) + 2 * XorBits(a \div 2, b \div 2, k - 1)

\* the table of ^ on bytes, computed once: XorTable[a + 1][b + 1] is a ^ b
XorTable ==
    SubSeq([a \in 1..256 |->
              SubSeq([b \in 1..256 |-> XorBits(a - 1, b - 1, 8)], 1, 256)],
           1, 256)

\* byte ^ byte
XorByte(a, b) == XorTable[a + 1][b + 1]

Xor16(a, b) ==
    XorByte(a % 256, b % 256) + 256 * XorByte(a \div 256, b \div 256)

\* uint32 ^ uint32
Xor32(u, v) == <<Xor16(u[1], v[1]), Xor16(u[2], v[2])>>

\* uint32 + uint32, wrapping
Add32(u, v) ==
    LET s == u[1] + v[1]
    IN  <<s % H16, (u[2] + v[2] + (s \div H16)) % H16>>

Pow2(k) == 2 ^ k

\* (t << k) | (t >> (32 - k)) on a uint32, 0 < k <= 16
Rotl(t, k) ==
    IF k = 16 THEN <<t[2], t[1]>>
    ELSE <<((t[1] * Pow2(k)) % H16) + (t[2] \div Pow2(16 - k)),
           ((t[2] * Pow2(k)) % H16) + (t[1] \div Pow2(16 - k))>>

Zero32 == <<0, 0>>

\* x++ on a uint32
Inc32(u) == Add32(u, <<1, 0>>)

\* binary.LittleEndian.Uint32 of four bytes
LeUint32(b0, b1, b2, b3) == <<b0 + 256 * b1, b2 + 256 * b3>>

\* binary.LittleEndian.PutUint32: the four bytes of a uint32
LePutUint32(u) ==
    <<u[1] % 256, u[1] \div 256, u[2] % 256, u[2] \div 256>>

\* ------------------------------------------------------------------------
\* Block transform
\* ------------------------------------------------------------------------

blockLen == 64

\* a[i] of a Go array or slice
At(a, i) == a[i + 1]

\* TLC evaluates an operator's argument only when its value is asked for,
\* so a chain of values each made from the one before is evaluated as one
\* recursion as deep as the chain.  The one element of a set is evaluated
\* when the set is made: Only({F(v) : v \in {e}}) is F(e) with e evaluated
\* first.
Only(S) == CHOOSE r \in S : TRUE

\* x += y on words i and j of the working state s
AddInto(s, i, j) == [s EXCEPT ![i + 1] = Add32(@, At(s, j))]

\* t = x ^ y; x = (t << k) | (t >> (32 - k)) on words i and j
XorRotInto(s, i, j, k) == [s EXCEPT ![i + 1] = Rotl(Xor32(@, At(s, j)), k)]

\* one quarter-round on words a, b, c, d of the working state s
QuarterRound(s, a, b, c, d) ==
    XorRotInto(
      AddInto(
        XorRotInto(
          AddInto(
            XorRotInto(
              AddInto(
                XorRotInto(
                  AddInto(s, a, b),
                  d, a, 16),
                c, d),
              b, c, 12),
            a, b),
          d, a, 8),
        c, d),
      b, c, 7)

\* DoubleRound with the four column quarter-rounds run a second time in
\* place of the diagonal ones
DoubleRoundColumnsOnly(s) ==
    Only({QuarterRound(s7, 3, 7, 11, 15) : s7 \in
         {QuarterRound(s6, 2, 6, 10, 14) : s6 \in
         {QuarterRound(s5, 1, 5, 9, 13) : s5 \in
         {QuarterRound(s4, 0, 4, 8, 12) : s4 \in
         {QuarterRound(s3, 3, 7, 11, 15) : s3 \in
         {QuarterRound(s2, 2, 6, 10, 14) : s2 \in
         {QuarterRound(s1, 1, 5, 9, 13) : s1 \in
         {QuarterRound(s, 0, 4, 8, 12)}}}}}}}})

\* one iteration of the round loop: four column then four diagonal
\* quarter-rounds, the first innermost
DoubleRound(s) ==
    Only({QuarterRound(s7, 3, 4, 9, 14) : s7 \in
         {QuarterRound(s6, 2, 7, 8, 13) : s6 \in
         {QuarterRound(s5, 1, 6, 11, 12) : s5 \in
         {QuarterRound(s4, 0, 5, 10, 15) : s4 \in
         {QuarterRound(s3, 3, 7, 11, 15) : s3 \in
         {QuarterRound(s2, 2, 6, 10, 14) : s2 \in
         {QuarterRound(s1, 1, 5, 9, 13) : s1 \in
         {QuarterRound(s, 0, 4, 8, 12)}}}}}}}})

RECURSIVE RoundLoop(_, _)
\* for z = rounds; z > 0; z -= 2
RoundLoop(s, z) ==
    IF z > 0
    THEN Only({RoundLoop(t, z - 2) : t \in {DoubleRound(s)}})
    ELSE s

\* the feed-forward and the serialisation of words k..15:
\* x += input[k]; binary.LittleEndian.PutUint32(output[4*k:], x)
RECURSIVE Serialise(_, _, _)
Serialise(w, input, k) ==
    IF k > 15 THEN <<>>
    ELSE LePutUint32(Add32(At(w, k), At(input, k)))
            \o Serialise(w, input, k + 1)

\* salsa20_wordtobyte that runs twenty rounds whatever the round count
salsa20_wordtobyteTwentyRounds(input, rounds) ==
    Serialise(RoundLoop(input, 20), input, 0)

\* salsa20_wordtobyte: the 64 output bytes for the 16 input words and a
\* round count
salsa20_wordtobyte(input, rounds) ==
    Serialise(RoundLoop(input, rounds), input, 0)

\* ------------------------------------------------------------------------
\* Byte buffers and 64-bit counters
\* ------------------------------------------------------------------------

\* make([]byte, k)
Zeros(k) == SubSeq([i \in 1..k |-> 0], 1, k)

\* A uint64 is the tuple of its four 16-bit limbs, least significant first.
\* binary.LittleEndian.PutUint64: its eight bytes
LePutUint64(u) ==
    <<u[1] % 256, u[1] \div 256, u[2] % 256, u[2] \div 256,
      u[3] % 256, u[3] \div 256, u[4] % 256, u[4] \div 256>>

\* binary.LittleEndian.Uint64 of eight bytes
LeUint64(b) ==
    <<b[1] + 256 * b[2], b[3] + 256 * b[4],
      b[5] + 256 * b[6], b[7] + 256 * b[8]>>

\* u + k modulo 2^64, for a uint64 u and a natural k below 2^30
Add64(u, k) ==
    LET s1 == u[1] + k
        s2 == u[2] + (s1 \div H16)
        s3 == u[3] + (s2 \div H16)
        s4 == u[4] + (s3 \div H16)
    IN  <<s1 % H16, s2 % H16, s3 % H16, s4 % H16>>

\* u > v on uint64
Gt64(u, v) ==
    \/ u[4] > v[4]
    \/ u[4] = v[4] /\ u[3] > v[3]
    \/ u[4] = v[4] /\ u[3] = v[3] /\ u[2] > v[2]
    \/ u[4] = v[4] /\ u[3] = v[3] /\ u[2] = v[2] /\ u[1] > v[1]

\* ------------------------------------------------------------------------
\* Context state
\* ------------------------------------------------------------------------

defaultRounds == 20
maxGoroutines == 300
blocksPerChunk == 200

\* "expand 32-byte k" and "expand 16-byte k"
sigma == <<101, 120, 112, 97, 110, 100, 32, 51, 50, 45, 98, 121, 116, 101, 32, 107>>
tau   == <<101, 120, 112, 97, 110, 100, 32, 49, 54, 45, 98, 121, 116, 101, 32, 107>>

\* binary.LittleEndian.Uint32(b[i:])
Uint32At(b, i) == LeUint32(At(b, i), At(b, i + 1), At(b, i + 2), At(b, i + 3))

\* SetRounds: the check that panics
SetRoundsPanics(r) == ~(r = 8 \/ r = 12 \/ r = 20)

\* SetRounds on a valid r
SetRounds(xx, r) == [xx EXCEPT !.rounds = r]

\* KeySetup: the check that panics
KeySetupPanics(key) == Len(key) # 16 /\ Len(key) # 32

\* KeySetup that also drops what is left of the buffered block
KeySetupDropsBlock(xx, key) ==
    LET kbytes == Len(key)
        k2 == IF kbytes = 32 THEN SubSeq(key, 17, 32) ELSE key
        constants == IF kbytes = 32 THEN sigma ELSE tau
    IN  [xx EXCEPT !.input =
            <<Uint32At(constants, 0), Uint32At(constants, 4),
              Uint32At(constants, 8), Uint32At(constants, 12),
              Uint32At(key, 0), Uint32At(key, 4),
              Uint32At(key, 8), Uint32At(key, 12),
              Uint32At(k2, 0), Uint32At(k2, 4),
              Uint32At(k2, 8), Uint32At(k2, 12),
              At(xx.input, 12), At(xx.input, 13),
              At(xx.input, 14), At(xx.input, 15)>>,
                   !.next = blockLen]

\* KeySetup on a key of 16 or 32 bytes
KeySetup(xx, key) ==
    LET kbytes == Len(key)
        k2 == IF kbytes = 32 THEN SubSeq(key, 17, 32) ELSE key
        constants == IF kbytes = 32 THEN sigma ELSE tau
    IN  [xx EXCEPT !.input =
            <<Uint32At(constants, 0), Uint32At(constants, 4),
              Uint32At(constants, 8), Uint32At(constants, 12),
              Uint32At(key, 0), Uint32At(key, 4),
              Uint32At(key, 8), Uint32At(key, 12),
              Uint32At(k2, 0), Uint32At(k2, 4),
              Uint32At(k2, 8), Uint32At(k2, 12),
              At(xx.input, 12), At(xx.input, 13),
              At(xx.input, 14), At(xx.input, 15)>>]

\* Seek that stores only the low counter word
SeekLowWordOnly(xx, n) ==
    [xx EXCEPT !.input[13] = <<n[1], n[2]>>,
               !.eof = FALSE,
               !.next = blockLen]

\* Seek that leaves the exhaustion flag as it is
SeekKeepsEof(xx, n) ==
    [xx EXCEPT !.input[13] = <<n[1], n[2]>>,
               !.input[14] = <<n[3], n[4]>>,
               !.next = blockLen]

\* Seek that leaves the cursor where it is
SeekKeepsCursor(xx, n) ==
    [xx EXCEPT !.input[13] = <<n[1], n[2]>>,
               !.input[14] = <<n[3], n[4]>>,
               !.eof = FALSE]

\* Seek(n) for a uint64 n
Seek(xx, n) ==
    LET b == LePutUint64(n)
    IN  [xx EXCEPT !.input[13] = Uint32At(b, 0),
                   !.input[14] = Uint32At(b, 4),
                   !.eof = FALSE,
                   !.next = blockLen]

\* the check of IvSetup that lets an iv of more than 8 bytes through
IvSetupPanicsShortOnly(iv) == Len(iv) < 8

\* IvSetup: the check that panics
IvSetupPanics(iv) == Len(iv) # 8

\* IvSetup that loads the iv and does not call Seek(0)
IvSetupKeepsPosition(xx, iv) ==
    [xx EXCEPT !.input[15] = Uint32At(iv, 0),
               !.input[16] = Uint32At(iv, 4)]

\* IvSetup on an iv of 8 bytes
IvSetup(xx, iv) ==
    LET s == Seek(xx, <<0, 0, 0, 0>>)
    IN  [s EXCEPT !.input[15] = Uint32At(iv, 0),
                  !.input[16] = Uint32At(iv, 4)]

\* IvSetupUint64(n) for a uint64 n
IvSetupUint64(xx, n) ==
    LET s == Seek(xx, <<0, 0, 0, 0>>)
        b == LePutUint64(n)
    IN  [s EXCEPT !.input[15] = Uint32At(b, 0),
                  !.input[16] = Uint32At(b, 4)]

\* GetCounter
GetCounter(xx) ==
    LeUint64(LePutUint32(At(xx.input, 12)) \o LePutUint32(At(xx.input, 13)))

\* The Ctx literal of New, before KeySetup and IvSetup.  The guard channel
\* is kept beside the context (see NewGuard).
ZeroCtx ==
    [input |-> <<Zero32, Zero32, Zero32, Zero32, Zero32, Zero32, Zero32,
                 Zero32, Zero32, Zero32, Zero32, Zero32, Zero32, Zero32,
                 Zero32, Zero32>>,
     output |-> Zeros(blockLen),
     next |-> blockLen,
     eof |-> FALSE,
     rounds |-> defaultRounds,
     parallel |-> TRUE,
     blocksPerChunk |-> blocksPerChunk,
     goroutinesMax |-> maxGoroutines]

\* New(key, iv) for a valid key and iv
New(key, iv) == IvSetup(KeySetup(ZeroCtx, key), iv)

\* make(chan struct{}, cap): a channel is its capacity and its length
MakeChan(cap) == [cap |-> cap, len |-> 0]

\* the guard channel New makes
NewGuard == MakeChan(maxGoroutines)

\* NewSmallMemory(key, iv)
NewSmallMemory(key, iv) == [New(key, iv) EXCEPT !.parallel = FALSE]

\* UseParallel(b)
UseParallel(xx, b) == [xx EXCEPT !.parallel = b]

\* TuneParallel that stores BlocksPerGoroutine whatever its sign
TuneParallelAnySign(xx, BlocksPerGoroutine, MaxGoroutines) ==
    [xx EXCEPT !.blocksPerChunk = BlocksPerGoroutine]

\* TuneParallel: the context after the call
TuneParallel(xx, BlocksPerGoroutine, MaxGoroutines) ==
    IF BlocksPerGoroutine > 0
    THEN [xx EXCEPT !.blocksPerChunk = BlocksPerGoroutine]
    ELSE xx

\* TuneParallel: the guard channel after the call
TuneParallelGuard(g, BlocksPerGoroutine, MaxGoroutines) ==
    IF MaxGoroutines > 0 THEN MakeChan(MaxGoroutines) ELSE g

\* ------------------------------------------------------------------------
\* Inputs of the model
\* ------------------------------------------------------------------------

\* the byte sequence lo, lo + 1, ..., of length k
Ramp(lo, k) == SubSeq([i \in 1..k |-> (lo + i - 1) % 256], 1, k)

\* the key, iv and round count of the contexts the model starts from (the
\* first three), and those that KeySetup, IvSetup and SetRounds make of the
\* first with the key and the iv of the second and the three round counts
SetupList ==
    <<[key |-> Zeros(32), iv |-> Zeros(8), rounds |-> 20],
      [key |-> Ramp(1, 16), iv |-> Ramp(201, 8), rounds |-> 8],
      [key |-> Ramp(101, 32), iv |-> Ramp(201, 8), rounds |-> 12],
      [key |-> Zeros(32), iv |-> Zeros(8), rounds |-> 8],
      [key |-> Zeros(32), iv |-> Ramp(201, 8), rounds |-> 20],
      [key |-> Zeros(32), iv |-> Ramp(201, 8), rounds |-> 8],
      [key |-> Ramp(1, 16), iv |-> Zeros(8), rounds |-> 20],
      [key |-> Ramp(1, 16), iv |-> Zeros(8), rounds |-> 8],
      [key |-> Ramp(1, 16), iv |-> Ramp(201, 8), rounds |-> 20],
      [key |-> Zeros(32), iv |-> Zeros(8), rounds |-> 12],
      [key |-> Zeros(32), iv |-> Ramp(201, 8), rounds |-> 12],
      [key |-> Ramp(1, 16), iv |-> Zeros(8), rounds |-> 12],
      [key |-> Ramp(1, 16), iv |-> Ramp(201, 8), rounds |-> 12]>>

\* block numbers: 0, 2^32 - 2 (the low counter word carries two blocks
\* later), 2^64 - 3 and 2^64 - 1 (the last block)
Block0     == <<0, 0, 0, 0>>
BlockCarry == <<65534, 65535, 0, 0>>
BlockLate  == <<65533, 65535, 65535, 65535>>
BlockLast  == <<65535, 65535, 65535, 65535>>

Anchors == <<Block0, BlockCarry, BlockLate>>

\* how many blocks past each anchor the block cache reaches
CacheSpan == 10

\* The contexts whose blocks are cached: every setup at every block number
\* within CacheSpan of an anchor.  With s setups and a anchors, entry i is
\* for setup (i - 1) % s, anchor ((i - 1) \div s) % a and offset
\* (i - 1) \div (s * a).
CacheSize == Len(SetupList) * Len(Anchors) * CacheSpan

CacheKey(i) ==
    LET u == SetupList[((i - 1) % Len(SetupList)) + 1]
        b == Anchors[(((i - 1) \div Len(SetupList)) % Len(Anchors)) + 1]
        k == (i - 1) \div (Len(SetupList) * Len(Anchors))
    IN  [input |-> Seek(New(u.key, u.iv), Add64(b, k)).input,
         rounds |-> u.rounds]

CacheKeys == SubSeq([i \in 1..CacheSize |-> CacheKey(i)], 1, CacheSize)

\* salsa20_wordtobyte of every cached context, computed once
CacheBlocks ==
    SubSeq([i \in 1..CacheSize |->
              salsa20_wordtobyte(CacheKeys[i].input, CacheKeys[i].rounds)],
           1, CacheSize)

\* salsa20_wordtobyte(input, rounds, output): the block, looked up in the
\* cache when it is there and computed when it is not
Block(input, rounds) ==
    LET hit == {i \in 1..CacheSize :
                  CacheKeys[i] = [input |-> input, rounds |-> rounds]}
    IN  IF hit = {} THEN salsa20_wordtobyte(input, rounds)
        ELSE CacheBlocks[CHOOSE i \in hit : TRUE]

\* ------------------------------------------------------------------------
\* Ctx.Encrypt: the sequential engine
\* ------------------------------------------------------------------------

\* GenBlock that never sets the exhaustion flag
GenBlockNeverEof(xx) ==
    LET out == Block(xx.input, xx.rounds)
        lo  == Inc32(At(xx.input, 12))
        hi  == IF lo = Zero32 THEN Inc32(At(xx.input, 13))
                              ELSE At(xx.input, 13)
    IN  [xx EXCEPT !.output = out, !.input[13] = lo, !.input[14] = hi]

\* GenBlock that sets the exhaustion flag whenever the high counter word is
\* 0 after the step, whether the low word has wrapped or not
GenBlockEofOnZeroHigh(xx) ==
    LET out == Block(xx.input, xx.rounds)
        lo  == Inc32(At(xx.input, 12))
        hi  == IF lo = Zero32 THEN Inc32(At(xx.input, 13))
                              ELSE At(xx.input, 13)
    IN  [xx EXCEPT !.output = out,
                   !.input[13] = lo,
                   !.input[14] = hi,
                   !.eof = IF hi = Zero32 THEN TRUE ELSE @]

\* GenBlock that never carries into the high counter word
GenBlockNoCarry(xx) ==
    LET out == Block(xx.input, xx.rounds)
        lo  == Inc32(At(xx.input, 12))
    IN  [xx EXCEPT !.output = out, !.input[13] = lo]

\* Generate the next block into x.output and step the 64-bit counter; the
\* exhaustion flag is set when the high word wraps to 0.
GenBlock(xx) ==
    LET out == Block(xx.input, xx.rounds)
        lo  == Inc32(At(xx.input, 12))
        hi  == IF lo = Zero32 THEN Inc32(At(xx.input, 13))
                              ELSE At(xx.input, 13)
    IN  [xx EXCEPT !.output = out,
                   !.input[13] = lo,
                   !.input[14] = hi,
                   !.eof = IF lo = Zero32 /\ hi = Zero32 THEN TRUE ELSE @]

\* min of two naturals
Min(a, b) == IF a < b THEN a ELSE b

\* A slice is the bytes it holds.  Encrypt may be given one slice as source
\* and destination: the source argument is then InPlace, no sequence of
\* bytes, and a read of the source reads what the destination holds at
\* that moment.
InPlace == <<256>>

\* the bytes of source m at a moment when the destination holds c
Src(m, c) == IF m = InPlace THEN c ELSE m

\* XorRun that takes the keystream bytes from the start of the buffered
\* block, whatever idx is
XorRunFromBlockStart(st, m, k) ==
    [st EXCEPT !.c = SubSeq(st.c, 1, st.n)
                        \o [i \in 1..k |->
                              XorByte(At(Src(m, st.c), st.n + i - 1),
                                      At(st.x.output, i - 1))]
                        \o SubSeq(st.c, st.n + k + 1, Len(st.c)),
               !.idx = @ + k,
               !.n = @ + k]

\* k iterations of  c[n] = m[n] ^ x.output[idx]; idx++; n++  on a loop state
\* st = [x, idx, n, c], none of which refills the buffered block
XorRun(st, m, k) ==
    [st EXCEPT !.c = SubSeq(st.c, 1, st.n)
                        \o [i \in 1..k |->
                              XorByte(At(Src(m, st.c), st.n + i - 1),
                                      At(st.x.output, st.idx + i - 1))]
                        \o SubSeq(st.c, st.n + k + 1, Len(st.c)),
               !.idx = @ + k,
               !.n = @ + k]

\* how many iterations a byte loop runs before idx reaches blockLen or n
\* reaches size
RunLen(st, size) == Min(blockLen - st.idx, size - st.n)

\* The loop that uses up the bytes left in the buffered block:
\* for ; idx < blockLen && n < size; n++.  Its condition keeps idx below
\* blockLen, so the refill inside its body never runs and the loop is one
\* run of XORs.
LeadLoop(st, m, size) ==
    IF st.idx < blockLen /\ st.n < size
    THEN XorRun(st, m, RunLen(st, size))
    ELSE st

RECURSIVE TailLoop(_, _, _)
\* The sequential loop: for ; n < size; n++.  Taken a buffered block at a
\* time: when idx >= blockLen it breaks on exhaustion or else refills the
\* block (idx = 0), then XORs until the block or the input is used up.
TailLoop(st, m, size) ==
    IF st.n < size
    THEN IF st.idx >= blockLen
         THEN IF st.x.eof
              THEN st
              ELSE TailLoop([st EXCEPT !.x = GenBlock(st.x), !.idx = 0],
                            m, size)
         ELSE TailLoop(XorRun(st, m, RunLen(st, size)), m, size)
    ELSE st

\* Return that does not store the cursor in x.next
ReturnCursorNotStored(st) ==
    [x |-> st.x,
     c |-> st.c,
     n |-> st.n,
     err |-> IF st.x.eof /\ st.idx >= blockLen THEN "EOF" ELSE "nil",
     panicked |-> FALSE]

\* Return that stores the cursor modulo blockLen, 0 for a block that is
\* used up
ReturnCursorWrapped(st) ==
    [x |-> [st.x EXCEPT !.next = st.idx % blockLen],
     c |-> st.c,
     n |-> st.n,
     err |-> IF st.x.eof /\ st.idx >= blockLen THEN "EOF" ELSE "nil",
     panicked |-> FALSE]

\* What an Encrypt call hands back: the context, the destination, n, err
\* and whether the call panicked
Return(st) ==
    [x |-> [st.x EXCEPT !.next = st.idx],
     c |-> st.c,
     n |-> st.n,
     err |-> IF st.x.eof /\ st.idx >= blockLen THEN "EOF" ELSE "nil",
     panicked |-> FALSE]

\* a panic before anything is written
Panic(xx, c) ==
    [x |-> xx, c |-> c, n |-> 0, err |-> "nil", panicked |-> TRUE]

\* EncryptPanics without the check of the destination's length
EncryptPanicsExhaustedOnly(xx, m, c) ==
    /\ Len(m) # 0
    /\ xx.eof /\ xx.next >= blockLen

\* The two checks of Encrypt that panic; an empty m returns before them
EncryptPanics(xx, m, c) ==
    /\ Len(Src(m, c)) # 0
    /\ \/ Len(c) < Len(Src(m, c))
       \/ xx.eof /\ xx.next >= blockLen

\* ------------------------------------------------------------------------
\* Ctx.Encrypt: the parallel chunk scheduler
\* ------------------------------------------------------------------------

\* chunkLen for blocksPerChunk blocks
ChunkLen(bpc) == blockLen * bpc

\* ChunkCount that leaves the last whole chunk to the sequential loop
ChunkCountLessOne(size, n, bpc) == (size - n) \div ChunkLen(bpc) - 1

\* chunkCount := uint64((size - n) / chunkLen)
ChunkCount(size, n, bpc) == (size - n) \div ChunkLen(bpc)

\* ChunkGo that hands out chunks when exactly two chunks' worth is left
ChunkGoAtTwoChunks(xx, size, n) ==
    /\ size - n >= ChunkLen(xx.blocksPerChunk) * 2
    /\ Gt64(Add64(GetCounter(xx),
                  ChunkCount(size, n, xx.blocksPerChunk) * xx.blocksPerChunk),
            GetCounter(xx))

\* ChunkGo without the comparison of the counter after the last chunk
ChunkGoAnyCounter(xx, size, n) ==
    size - n > ChunkLen(xx.blocksPerChunk) * 2

\* The two conditions under which chunks are handed to goroutines: more
\* than two chunks' worth of bytes are left, and the counter after the last
\* chunk, computed modulo 2^64, is above the base counter
ChunkGo(xx, size, n) ==
    /\ size - n > ChunkLen(xx.blocksPerChunk) * 2
    /\ Gt64(Add64(GetCounter(xx),
                  ChunkCount(size, n, xx.blocksPerChunk) * xx.blocksPerChunk),
            GetCounter(xx))

\* LaunchWorker that hands every goroutine the counter of x in place of
\* baseBlock
LaunchWorkerAtCounter(xx, baseBlock, n) ==
    [r |-> xx, blk |-> GetCounter(xx), ni |-> n, j |-> 0, pc |-> "seek"]

\* LaunchWorker that starts every goroutine one block further on in the
\* buffers
LaunchWorkerBlockOn(xx, baseBlock, n) ==
    [r |-> xx, blk |-> baseBlock, ni |-> n + blockLen, j |-> 0, pc |-> "seek"]

\* go func(r Ctx, blk uint64, ni int){...}(*x, baseBlock, n): the goroutine
\* starts with a copy of the context
LaunchWorker(xx, baseBlock, n) ==
    [r |-> xx, blk |-> baseBlock, ni |-> n, j |-> 0, pc |-> "seek"]

\* r.Seek(blk)
WorkerSeek(w) == [w EXCEPT !.r = Seek(w.r, w.blk), !.pc = "loop"]

\* One iteration of the goroutine's block loop on its private context:
\* generate a block, step the private counter (no exhaustion flag)
WorkerGen(r) ==
    LET out == Block(r.input, r.rounds)
        lo  == Inc32(At(r.input, 12))
        hi  == IF lo = Zero32 THEN Inc32(At(r.input, 13))
                              ELSE At(r.input, 13)
    IN  [r EXCEPT !.output = out, !.input[13] = lo, !.input[14] = hi]

\* for i := 0; i < blockLen; i++ { c[ni] = m[ni] ^ r.output[i]; ni++ }
\* run twice for a goroutine w whose private context, with the block just
\* generated, is r1: the second pass writes the same bytes again when
\* source and destination are two slices, and XORs the block into what the
\* first pass wrote when they are one
WorkerWriteTwice(w, r1, m, c) ==
    SubSeq(c, 1, w.ni)
        \o [i \in 1..blockLen |->
              XorByte(XorByte(At(Src(m, c), w.ni + i - 1),
                              At(r1.output, i - 1)),
                      IF m = InPlace THEN At(r1.output, i - 1) ELSE 0)]
        \o SubSeq(c, w.ni + blockLen + 1, Len(c))

\* for i := 0; i < blockLen; i++ { c[ni] = m[ni] ^ r.output[i]; ni++ }
\* for a goroutine w whose private context, with the block just generated,
\* is r1
WorkerWrite(w, r1, m, c) ==
    SubSeq(c, 1, w.ni)
        \o [i \in 1..blockLen |->
              XorByte(At(Src(m, c), w.ni + i - 1), At(r1.output, i - 1))]
        \o SubSeq(c, w.ni + blockLen + 1, Len(c))

\* WorkerBlock that leaves the block loop after its first iteration
WorkerBlockRunsOnce(w, bpc) ==
    [w EXCEPT !.r = WorkerGen(w.r),
              !.ni = @ + blockLen,
              !.j = @ + 1,
              !.pc = "release"]

\* the goroutine after one iteration of its block loop
WorkerBlock(w, bpc) ==
    [w EXCEPT !.r = WorkerGen(w.r),
              !.ni = @ + blockLen,
              !.j = @ + 1,
              !.pc = IF w.j + 1 < bpc THEN "loop" ELSE "release"]

RECURSIVE RunWorker(_, _, _, _)
\* the goroutine w goes on as w1 after an iteration of its block loop that
\* has written to c
RunWorkerOn(w, w1, m, c, bpc) ==
    RunWorker(w1, m, WorkerWrite(w, w1.r, m, c), bpc)

\* the destination after a goroutine has run its block loop to the end
RunWorker(w, m, c, bpc) ==
    IF w.pc = "seek" THEN RunWorker(WorkerSeek(w), m, c, bpc)
    ELSE IF w.pc = "loop"
    THEN RunWorkerOn(w, WorkerBlock(w, bpc), m, c, bpc)
    ELSE c

RECURSIVE ChunkLoop(_, _, _, _, _, _, _)
\* for chunk := 0; chunk < chunkCount; chunk++ {...}; wg.Wait(), with the
\* goroutines run one after the other in launch order
ChunkLoop(xx, m, c, baseBlock, n, chunk, chunkCount) ==
    IF chunk < chunkCount
    THEN ChunkLoop(xx, m,
                   RunWorker(LaunchWorker(xx, baseBlock, n), m, c,
                             xx.blocksPerChunk),
                   Add64(baseBlock, xx.blocksPerChunk),
                   n + ChunkLen(xx.blocksPerChunk),
                   chunk + 1, chunkCount)
    ELSE [c |-> c, baseBlock |-> baseBlock, n |-> n]

\* AfterChunks that leaves the cursor and idx at the start of the buffered
\* block
AfterChunksCursorAtStart(xx, d) ==
    [x |-> [Seek(xx, d.baseBlock) EXCEPT !.next = 0],
     idx |-> 0, n |-> d.n, c |-> d.c]

\* AfterChunks without x.Seek(baseBlock)
AfterChunksNoSeek(xx, d) ==
    [x |-> [xx EXCEPT !.next = blockLen],
     idx |-> blockLen, n |-> d.n, c |-> d.c]

\* after wg.Wait(): x.Seek(baseBlock); x.next = blockLen; idx = blockLen
AfterChunks(xx, d) ==
    [x |-> [Seek(xx, d.baseBlock) EXCEPT !.next = blockLen],
     idx |-> blockLen, n |-> d.n, c |-> d.c]

\* x.next = idx
StoreNext(st) == [st EXCEPT !.x.next = st.idx]

\* The loop state after the leading loop of the parallel branch, with
\* x.next = idx stored
AfterLead(xx, m, c) ==
    StoreNext(LeadLoop([x |-> xx, idx |-> xx.next, n |-> 0, c |-> c],
                       m, Len(Src(m, c))))

\* Encrypt from the end of the leading loop, in loop state s1, to its
\* return: the io.EOF return, the chunks if they are handed out, the
\* sequential loop
EncryptAfterLead(s1, m, size) ==
    IF s1.x.eof /\ s1.idx >= blockLen THEN Return(s1)
    ELSE Return(TailLoop(
            IF ChunkGo(s1.x, size, s1.n)
            THEN AfterChunks(s1.x,
                    ChunkLoop(s1.x, m, s1.c, GetCounter(s1.x), s1.n, 0,
                              ChunkCount(size, s1.n, s1.x.blocksPerChunk)))
            ELSE s1,
            m, size))

\* Encrypt that refills a used-up buffered block before it looks at the
\* length of the source
EncryptRefillsFirst(xx, m, c) ==
    IF Len(Src(m, c)) = 0
    THEN [x |-> IF xx.next >= blockLen /\ ~xx.eof
                THEN [GenBlock(xx) EXCEPT !.next = 0]
                ELSE xx,
          c |-> c, n |-> 0, err |-> "nil", panicked |-> FALSE]
    ELSE IF EncryptPanics(xx, m, c) THEN Panic(xx, c)
    ELSE IF ~xx.parallel
    THEN Return(TailLoop([x |-> xx, idx |-> xx.next, n |-> 0, c |-> c],
                         m, Len(Src(m, c))))
    ELSE EncryptAfterLead(AfterLead(xx, m, c), m, Len(Src(m, c)))

\* Encrypt that clears the destination before it writes
EncryptClearsDestination(xx, m, c) ==
    IF Len(Src(m, c)) = 0
    THEN [x |-> xx, c |-> c, n |-> 0, err |-> "nil", panicked |-> FALSE]
    ELSE IF EncryptPanics(xx, m, c) THEN Panic(xx, c)
    ELSE IF ~xx.parallel
    THEN Return(TailLoop([x |-> xx, idx |-> xx.next, n |-> 0,
                          c |-> Zeros(Len(c))],
                         m, Len(Src(m, c))))
    ELSE EncryptAfterLead(AfterLead(xx, m, Zeros(Len(c))), m,
                          Len(Src(m, c)))

\* Encrypt(m, c) as one step
Encrypt(xx, m, c) ==
    IF Len(Src(m, c)) = 0
    THEN [x |-> xx, c |-> c, n |-> 0, err |-> "nil", panicked |-> FALSE]
    ELSE IF EncryptPanics(xx, m, c) THEN Panic(xx, c)
    ELSE IF ~xx.parallel
    THEN Return(TailLoop([x |-> xx, idx |-> xx.next, n |-> 0, c |-> c],
                         m, Len(Src(m, c))))
    ELSE EncryptAfterLead(AfterLead(xx, m, c), m, Len(Src(m, c)))

\* ------------------------------------------------------------------------
\* The stream interface
\* ------------------------------------------------------------------------

\* Decrypt that hands its buffers to Encrypt the wrong way round
DecryptBuffersSwapped(xx, c, m) ==
    IF xx.eof /\ xx.next >= blockLen THEN Panic(xx, m)
    ELSE IF Len(m) < Len(c) THEN Panic(xx, m)
    ELSE Encrypt(xx, m, c)

\* Decrypt(c, m)
Decrypt(xx, c, m) ==
    IF xx.eof /\ xx.next >= blockLen THEN Panic(xx, m)
    ELSE IF Len(m) < Len(c) THEN Panic(xx, m)
    ELSE Encrypt(xx, c, m)

\* Keystream(stream): Encrypt's result is dropped
Keystream(xx, stream) ==
    IF xx.eof /\ Len(stream) >= blockLen THEN Panic(xx, stream)
    ELSE [Encrypt(xx, Zeros(Len(stream)), stream)
            EXCEPT !.n = 0, !.err = "nil"]

\* XORKeyStream(dst, src): Encrypt's result is dropped
XORKeyStream(xx, dst, src) ==
    IF xx.eof /\ Len(src) >= blockLen THEN Panic(xx, dst)
    ELSE IF Len(dst) < Len(src) THEN Panic(xx, dst)
    ELSE [Encrypt(xx, src, dst) EXCEPT !.n = 0, !.err = "nil"]

\* Read(b)
Read(xx, b) ==
    IF xx.eof /\ Len(b) >= blockLen THEN Panic(xx, b)
    ELSE Encrypt(xx, Zeros(Len(b)), b)

\* The published reference keystream of the test: two blocks for a zero
\* 32-byte key, a zero iv and 20 rounds
want ==
    <<
      118, 184, 224, 173, 160, 241, 61, 144, 64, 93, 106, 229, 83, 134, 189, 40,
      189, 210, 25, 184, 160, 141, 237, 26, 168, 54, 239, 204, 139, 119, 13, 199,
      218, 65, 89, 124, 81, 87, 72, 141, 119, 36, 224, 63, 184, 216, 74, 55,
      106, 67, 184, 244, 21, 24, 161, 28, 195, 135, 182, 105, 178, 238, 101, 134,
      159, 7, 231, 190, 85, 81, 56, 122, 152, 186, 151, 124, 115, 45, 8, 13,
      203, 15, 41, 160, 72, 227, 101, 105, 18, 198, 83, 62, 50, 238, 122, 237,
      41, 183, 33, 118, 156, 230, 78, 67, 213, 113, 51, 176, 116, 216, 57, 213,
      49, 237, 31, 40, 81, 10, 251, 69, 172, 225, 10, 31, 75, 121, 77, 111
    >>

\* ------------------------------------------------------------------------
\* Bounds and input sets of the state machines
\* ------------------------------------------------------------------------

\* TuneParallel is called with 1..MaxBlocksPerGoroutine blocks per goroutine
MaxBlocksPerGoroutine == 2

\* and with 1..MaxGoroutinesTuned simultaneous goroutines
MaxGoroutinesTuned == 2

\* at most MaxSegments consecutive Encrypt calls are followed as the
\* segments of one message
MaxSegments == 2

\* a block is compared with the uninterrupted keystream that starts up to
\* MaxRefOffset blocks before it
MaxRefOffset == 2

\* a plaintext of k bytes
Msg(k) == Ramp(7, k)

\* a destination buffer of k bytes that nothing has written yet
Fill(k) == SubSeq([i \in 1..k |-> 170], 1, k)

\* the checks of KeySetup and IvSetup are tried on every length up to
\* MaxSetupLen, the check of SetRounds on every value up to MaxRounds
MaxSetupLen == 33
MaxRounds == 21

\* a behaviour makes at most MaxCalls calls on its context
MaxCalls == 3

\* the block numbers Seek is called with
SeekTargets == {Block0, Add64(Block0, 1), Add64(BlockCarry, 2), BlockLast}

\* the block counters a call may leave behind: those the cache reaches
Near ==
    {Add64(Anchors[a], k) : a \in 1..Len(Anchors), k \in 0..CacheSpan}

\* the lengths of the buffers handed to the calls
EncryptLens      == {0, 60, 200}
DecryptLens      == {0, 64}
KeystreamLens    == {60, 64}
XORKeyStreamLens == {64}
ReadLens         == {1, 64}

\* the lengths <<source, destination>> of the Encrypt calls whose
\* destination is longer than their source
LongEncrypt == {<<60, 64>>, <<0, 4>>}

\* the lengths of the destinations Encrypt is given for a source of k
\* bytes: k, and what LongEncrypt has for k
DestLens(k) == {k} \cup {p[2] : p \in {q \in LongEncrypt : q[1] = k}}

\* the plaintexts handed to Encrypt
Plaintexts == {Msg(k) : k \in EncryptLens} \cup {Zeros(128)}

\* ------------------------------------------------------------------------
\* State
\* ------------------------------------------------------------------------

VARIABLES
    x,        \* the Ctx
    guard,    \* x.guard, the channel that limits the goroutines
    setup,    \* the key, iv and round count x was set up with
    op,       \* the last call made on x: its name and its argument
    prev,     \* the call before it
    mbuf,     \* the source buffer of the last call
    cbuf,     \* its destination buffer
    ret,      \* what it returned: n, err, and whether it panicked
    pre,      \* the context and the destination buffer before it
    seg,      \* the consecutive Encrypt calls so far, as one message
    calls,    \* how many calls have been made on x
    fr,       \* the frame of an Encrypt call that is under way
    workers,  \* the goroutines it has started
    peer      \* a second Ctx of the program, with its guard channel

vars ==
    <<x, guard, setup, op, prev, mbuf, cbuf, ret, pre, seg, calls, fr, workers,
      peer>>

\* no call yet
NoRet == [n |-> 0, err |-> "nil", panicked |-> FALSE]

\* no Encrypt call under way; inplace says whether the call is given one
\* slice as source and destination
NoFrame ==
    [pc |-> "idle", baseBlock |-> Block0, n |-> 0, chunk |-> 0,
     chunkCount |-> 0, wg |-> 0, inplace |-> FALSE]

\* no second context; chunks counts the chunks its Encrypt call has still
\* to start, active the goroutines of that call that hold a place in the
\* channel
NoPeer == [x |-> ZeroCtx, guard |-> MakeChan(0), chunks |-> 0, active |-> 0]

\* no segments since the context was xx
NoSeg(xx) == [x0 |-> xx, m |-> <<>>, c |-> <<>>, k |-> 0]

\* New(key, iv) and SetRounds(rounds) for a setup u
Fresh(u) == SetRounds(New(u.key, u.iv), u.rounds)

\* The contexts the model starts from: New and SetRounds, then the default
\* tuning, TuneParallel(1, 0) (chunks of one block) or UseParallel(false)
Configs ==
    {[setup |-> SetupList[1], x |-> Fresh(SetupList[1])],
     [setup |-> SetupList[1], x |-> TuneParallel(Fresh(SetupList[1]), 1, 0)],
     [setup |-> SetupList[2], x |-> UseParallel(Fresh(SetupList[2]), FALSE)],
     [setup |-> SetupList[3], x |-> TuneParallel(Fresh(SetupList[3]), 1, 0)]}

Init ==
    /\ \E cfg \in Configs : setup = cfg.setup /\ x = cfg.x
    /\ guard = NewGuard
    /\ op = [name |-> "New", arg |-> <<>>]
    /\ prev = [name |-> "none", arg |-> <<>>]
    /\ mbuf = <<>>
    /\ cbuf = <<>>
    /\ ret = NoRet
    /\ pre = [x |-> x, c |-> <<>>]
    /\ seg = NoSeg(x)
    /\ calls = 0
    /\ fr = NoFrame
    /\ workers = <<>>
    /\ peer = NoPeer

\* ------------------------------------------------------------------------
\* The calls, each as one step
\* ------------------------------------------------------------------------

\* the segments after an Encrypt call with outcome r on source mm
NextSeg(mm, r) ==
    IF r.panicked THEN NoSeg(r.x)
    ELSE IF seg.k < MaxSegments
    THEN [seg EXCEPT !.m = @ \o SubSeq(mm, 1, r.n),
                     !.c = @ \o SubSeq(r.c, 1, r.n),
                     !.k = @ + 1]
    ELSE [x0 |-> x, m |-> SubSeq(mm, 1, r.n), c |-> SubSeq(r.c, 1, r.n),
          k |-> 1]

\* the bookkeeping of a call named name with argument arg, source mm and
\* destination cc, whose outcome is r
Called(name, arg, mm, cc, r) ==
    /\ calls < MaxCalls
    /\ calls' = calls + 1
    /\ GetCounter(r.x) \in Near
    /\ x' = r.x
    /\ mbuf' = mm
    /\ cbuf' = r.c
    /\ ret' = [n |-> r.n, err |-> r.err, panicked |-> r.panicked]
    /\ op' = [name |-> name, arg |-> arg]
    /\ prev' = op
    /\ pre' = [x |-> x, c |-> cc]
    /\ seg' = IF name = "Encrypt" THEN NextSeg(mm, r) ELSE NoSeg(r.x)
    /\ UNCHANGED <<guard, setup, fr, workers, peer>>

\* x.Seek(n) for n one of targets
SeekTo(targets) ==
    \E n \in targets :
        Called("Seek", n, <<>>, <<>>,
               [x |-> Seek(x, n), c |-> <<>>, n |-> 0, err |-> "nil",
                panicked |-> FALSE])

\* x.Seek(n)
DoSeek == SeekTo(SeekTargets)

\* n, err := x.Encrypt(m, c)
DoEncrypt ==
    \E mm \in Plaintexts :
        \E d \in DestLens(Len(mm)) :
            Called("Encrypt", Len(mm), mm, Fill(d), Encrypt(x, mm, Fill(d)))

\* n, err := x.Decrypt(c, m)
DoDecrypt ==
    \E k \in DecryptLens :
        Called("Decrypt", k, Msg(k), Fill(k), Decrypt(x, Msg(k), Fill(k)))

\* x.Keystream(stream)
DoKeystream ==
    \E k \in KeystreamLens :
        Called("Keystream", k, Zeros(k), Fill(k), Keystream(x, Fill(k)))

\* x.XORKeyStream(dst, src)
DoXORKeyStream ==
    \E k \in XORKeyStreamLens :
        Called("XORKeyStream", k, Msg(k), Fill(k),
               XORKeyStream(x, Fill(k), Msg(k)))

\* n, err := x.Read(b)
DoRead ==
    \E k \in ReadLens :
        Called("Read", k, Zeros(k), Fill(k), Read(x, Fill(k)))

Next ==
    \/ DoSeek
    \/ DoEncrypt
    \/ DoDecrypt
    \/ DoKeystream
    \/ DoXORKeyStream
    \/ DoRead

Spec == Init /\ [][Next]_vars

\* ------------------------------------------------------------------------
\* One Encrypt call with its goroutines, step by step
\* ------------------------------------------------------------------------

\* how many bytes of the buffered block are used up before the call
LeadSkip == 60

\* the setups and block numbers the call starts from: at 2^32 - 2 the
\* goroutines carry into the high counter word, at 2^64 - 3 the chunks
\* reach the end of the keystream
ParStarts ==
    {[setup |-> SetupList[1], block |-> Block0],
     [setup |-> SetupList[2], block |-> BlockCarry],
     [setup |-> SetupList[3], block |-> BlockLate]}

\* The lengths of the call for context xx: what the leading loop takes,
\* then one byte less than two chunks, two chunks, one byte more, three
\* chunks, and three chunks and a byte
ParLens(xx) ==
    LET lead == blockLen - xx.next
        len  == ChunkLen(xx.blocksPerChunk)
    IN  {lead + r : r \in {2 * len - 1, 2 * len, 2 * len + 1, 3 * len,
                           3 * len + 1}}

\* New, SetRounds, UseParallel(u), TuneParallel(b, g), Seek, and Keystream
\* for the bytes that are used up
InitPar ==
    /\ \E s \in ParStarts, b \in 1..MaxBlocksPerGoroutine,
          g \in 1..MaxGoroutinesTuned, k \in {0, LeadSkip},
          a \in BOOLEAN, u \in BOOLEAN :
          LET x0 == Seek(TuneParallel(UseParallel(Fresh(s.setup), u), b, g),
                         s.block)
          IN  /\ setup = s.setup
              /\ fr = [NoFrame EXCEPT !.inplace = a]
              /\ guard = TuneParallelGuard(NewGuard, b, g)
              /\ x = IF k = 0 THEN x0 ELSE Keystream(x0, Fill(k)).x
              /\ op = IF k = 0 THEN [name |-> "Seek", arg |-> s.block]
                               ELSE [name |-> "Keystream", arg |-> k]
              /\ prev = IF k = 0
                         THEN [name |-> "TuneParallel", arg |-> <<b, g>>]
                         ELSE [name |-> "Seek", arg |-> s.block]
    /\ mbuf = <<>>
    /\ cbuf = <<>>
    /\ ret = NoRet
    /\ pre = [x |-> x, c |-> <<>>]
    /\ seg = NoSeg(x)
    /\ calls = 0
    /\ workers = <<>>
    /\ peer = NoPeer

\* the call returns with outcome r
Returned(r) ==
    /\ x' = r.x
    /\ cbuf' = r.c
    /\ ret' = [n |-> r.n, err |-> r.err, panicked |-> r.panicked]
    /\ fr' = [fr EXCEPT !.pc = "done"]

\* the call enters the chunk loop in loop state s1
ChunksEntered(s1, size) ==
    /\ x' = s1.x
    /\ cbuf' = s1.c
    /\ ret' = NoRet
    /\ fr' = [pc |-> "chunks",
              baseBlock |-> GetCounter(s1.x),
              n |-> s1.n,
              chunk |-> 0,
              chunkCount |-> ChunkCount(size, s1.n, s1.x.blocksPerChunk),
              wg |-> 0,
              inplace |-> fr.inplace]

\* whether a call for source mm and destination cc, in loop state s1 after
\* its leading loop, hands chunks to goroutines
HandsOut(mm, cc, s1) ==
    /\ Len(Src(mm, cc)) # 0
    /\ ~EncryptPanics(x, mm, cc)
    /\ x.parallel
    /\ ~(s1.x.eof /\ s1.idx >= blockLen)
    /\ ChunkGo(s1.x, Len(Src(mm, cc)), s1.n)

\* the source and the destination of a call for k bytes: two slices, or
\* one slice that holds the k bytes
ParSource(k) == IF fr.inplace THEN InPlace ELSE Msg(k)
ParDest(k) == IF fr.inplace THEN Msg(k) ELSE Fill(k)

\* the source of the call under way; mbuf keeps the bytes the source held
\* when the call was made
CallSource == IF fr.inplace THEN InPlace ELSE mbuf

\* Encrypt of source src, which holds the bytes mm, into cc up to the chunk
\* loop, s1 being the loop state after the leading loop
EncryptCallOn(mm, src, cc, s1) ==
    /\ mbuf' = mm
    /\ pre' = [x |-> x, c |-> cc]
    /\ op' = [name |-> "Encrypt", arg |-> Len(mm)]
    /\ prev' = op
    /\ calls' = calls + 1
    /\ IF HandsOut(src, cc, s1)
       THEN ChunksEntered(s1, Len(mm))
       ELSE Returned(Encrypt(x, src, cc))

\* Encrypt up to the chunk loop: the checks, the leading loop, and the
\* decision to hand chunks to goroutines.  A call that hands out no chunk
\* runs to its return.
EncryptCall ==
    /\ fr.pc = "idle"
    /\ \E k \in ParLens(x) :
          EncryptCallOn(Msg(k), ParSource(k), ParDest(k),
                        AfterLead(x, ParSource(k), ParDest(k)))
    /\ UNCHANGED <<guard, setup, seg, workers, peer>>

\* EncryptLaunch that does not wait for room in the channel
EncryptLaunchUnbounded ==
    /\ fr.pc = "chunks"
    /\ fr.chunk < fr.chunkCount
    /\ guard' = [guard EXCEPT !.len = @ + 1]
    /\ workers' = Append(workers, LaunchWorker(x, fr.baseBlock, fr.n))
    /\ fr' = [fr EXCEPT !.wg = @ + 1,
                        !.baseBlock = Add64(@, x.blocksPerChunk),
                        !.n = @ + ChunkLen(x.blocksPerChunk),
                        !.chunk = @ + 1]
    /\ UNCHANGED <<x, setup, op, prev, mbuf, cbuf, ret, pre, seg, calls,
                   peer>>

\* One iteration of the chunk loop: x.guard <- struct{}{} (which waits
\* while the channel is full), wg.Add(1), go func(...), baseBlock +=
\* blocksPerChunk, n += chunkLen
EncryptLaunch ==
    /\ fr.pc = "chunks"
    /\ fr.chunk < fr.chunkCount
    /\ guard.len < guard.cap
    /\ guard' = [guard EXCEPT !.len = @ + 1]
    /\ workers' = Append(workers, LaunchWorker(x, fr.baseBlock, fr.n))
    /\ fr' = [fr EXCEPT !.wg = @ + 1,
                        !.baseBlock = Add64(@, x.blocksPerChunk),
                        !.n = @ + ChunkLen(x.blocksPerChunk),
                        !.chunk = @ + 1]
    /\ UNCHANGED <<x, setup, op, prev, mbuf, cbuf, ret, pre, seg, calls,
                   peer>>

\* WorkerSeekStep of a goroutine that is handed the context, not a copy
WorkerSeekStepOnContext ==
    \E i \in 1..Len(workers) :
        /\ workers[i].pc = "seek"
        /\ workers' = [workers EXCEPT ![i] = WorkerSeek(@)]
        /\ x' = Seek(x, workers[i].blk)
        /\ UNCHANGED <<guard, setup, op, prev, mbuf, cbuf, ret, pre, seg,
                       calls, fr, peer>>

\* goroutine i: r.Seek(blk)
WorkerSeekStep ==
    \E i \in 1..Len(workers) :
        /\ workers[i].pc = "seek"
        /\ workers' = [workers EXCEPT ![i] = WorkerSeek(@)]
        /\ UNCHANGED <<x, guard, setup, op, prev, mbuf, cbuf, ret, pre, seg,
                       calls, fr, peer>>

\* goroutine i has become w1 in one iteration of its block loop
WorkerBlockDone(i, w1) ==
    /\ cbuf' = WorkerWrite(workers[i], w1.r, CallSource, cbuf)
    /\ workers' = [workers EXCEPT ![i] = w1]

\* goroutine i: one iteration of its block loop
WorkerBlockStep ==
    \E i \in 1..Len(workers) :
        /\ workers[i].pc = "loop"
        /\ \E w1 \in {WorkerBlock(workers[i], x.blocksPerChunk)} :
              WorkerBlockDone(i, w1)
        /\ UNCHANGED <<x, guard, setup, op, prev, mbuf, ret, pre, seg, calls,
                       fr, peer>>

\* WorkerRelease of a goroutine that ends without <-x.guard
WorkerReleaseKeepsPlace ==
    \E i \in 1..Len(workers) :
        /\ workers[i].pc = "release"
        /\ workers' = [workers EXCEPT ![i].pc = "exit"]
        /\ UNCHANGED <<x, guard, setup, op, prev, mbuf, cbuf, ret, pre, seg,
                       calls, fr, peer>>

\* goroutine i: <-x.guard
WorkerRelease ==
    \E i \in 1..Len(workers) :
        /\ workers[i].pc = "release"
        /\ guard.len > 0
        /\ guard' = [guard EXCEPT !.len = @ - 1]
        /\ workers' = [workers EXCEPT ![i].pc = "exit"]
        /\ UNCHANGED <<x, setup, op, prev, mbuf, cbuf, ret, pre, seg, calls,
                       fr, peer>>

\* goroutine i: the deferred wg.Done()
WorkerDone ==
    \E i \in 1..Len(workers) :
        /\ workers[i].pc = "exit"
        /\ workers' = [workers EXCEPT ![i].pc = "done"]
        /\ fr' = [fr EXCEPT !.wg = @ - 1]
        /\ UNCHANGED <<x, guard, setup, op, prev, mbuf, cbuf, ret, pre, seg,
                       calls, peer>>

\* EncryptFinish without wg.Wait()
EncryptFinishNoWait ==
    /\ fr.pc = "chunks"
    /\ fr.chunk = fr.chunkCount
    /\ \E t \in {TailLoop(AfterChunks(x, [c |-> cbuf,
                                           baseBlock |-> fr.baseBlock,
                                           n |-> fr.n]),
                           CallSource, Len(mbuf))} :
          \E r \in {Return(t)} : Returned(r)
    /\ UNCHANGED <<guard, setup, op, prev, mbuf, pre, seg, calls, workers,
                   peer>>

\* Encrypt after the chunk loop: wg.Wait(), x.Seek(baseBlock), the
\* sequential loop for the bytes that are left, and the return
EncryptFinish ==
    /\ fr.pc = "chunks"
    /\ fr.chunk = fr.chunkCount
    /\ fr.wg = 0
    /\ \E t \in {TailLoop(AfterChunks(x, [c |-> cbuf,
                                           baseBlock |-> fr.baseBlock,
                                           n |-> fr.n]),
                           CallSource, Len(mbuf))} :
          \E r \in {Return(t)} : Returned(r)
    /\ UNCHANGED <<guard, setup, op, prev, mbuf, pre, seg, calls, workers,
                   peer>>

NextPar ==
    \/ EncryptCall
    \/ EncryptLaunch
    \/ WorkerSeekStep
    \/ WorkerBlockStep
    \/ WorkerRelease
    \/ WorkerDone
    \/ EncryptFinish

SpecPar == InitPar /\ [][NextPar]_vars

\* the starts of SpecPar from block 0 of the first setup, with two slices
\* and parallel processing enabled
InitFair ==
    /\ InitPar
    /\ setup = SetupList[1]
    /\ op = [name |-> "Seek", arg |-> Block0]
    /\ x.parallel
    /\ ~fr.inplace

\* Encrypt up to the chunk loop, for the lengths of ParLens that leave more
\* than two chunks after the leading loop
EncryptCallChunks ==
    /\ fr.pc = "idle"
    /\ \E k \in {n \in ParLens(x) :
                    n - (blockLen - x.next)
                        > 2 * ChunkLen(x.blocksPerChunk)} :
          EncryptCallOn(Msg(k), ParSource(k), ParDest(k),
                        AfterLead(x, ParSource(k), ParDest(k)))
    /\ UNCHANGED <<guard, setup, seg, workers, peer>>

NextFair ==
    \/ EncryptCallChunks
    \/ EncryptLaunch
    \/ WorkerSeekStep
    \/ WorkerBlockStep
    \/ WorkerRelease
    \/ WorkerDone
    \/ EncryptFinish

\* The Go scheduler runs every goroutine that can run: the caller and the
\* goroutines it has started each take the step they can take
FairPar ==
    /\ WF_vars(EncryptCallChunks)
    /\ WF_vars(EncryptLaunch)
    /\ WF_vars(WorkerSeekStep)
    /\ WF_vars(WorkerBlockStep)
    /\ WF_vars(WorkerRelease)
    /\ WF_vars(WorkerDone)
    /\ WF_vars(EncryptFinish)

SpecParFair == InitFair /\ [][NextFair]_vars /\ FairPar

\* ------------------------------------------------------------------------
\* Two contexts: tuning calls, and Encrypt calls that run at the same time
\* ------------------------------------------------------------------------

\* the arguments of TuneParallel on x: negative, zero and positive values
TuneArgs ==
    ({-1, 0} \cup (1..MaxBlocksPerGoroutine))
        \X ({-1, 0} \cup (1..MaxGoroutinesTuned))

\* the arguments of TuneParallel on the second context
PeerTuneArgs == {<<0, 0>>, <<1, 0>>, <<0, 1>>}

\* how many chunks an Encrypt call on the second context hands out
PeerChunks == 2

\* x is New, SetRounds and TuneParallel(1, 0) for the first setup, the
\* second context New and SetRounds for the second
InitTwo ==
    /\ setup = SetupList[1]
    /\ x = TuneParallel(Fresh(SetupList[1]), 1, 0)
    /\ guard = TuneParallelGuard(NewGuard, 1, 0)
    /\ op = [name |-> "TuneParallel", arg |-> <<1, 0>>]
    /\ prev = [name |-> "SetRounds", arg |-> SetupList[1].rounds]
    /\ mbuf = <<>>
    /\ cbuf = <<>>
    /\ ret = NoRet
    /\ pre = [x |-> x, c |-> <<>>]
    /\ seg = NoSeg(x)
    /\ calls = 0
    /\ fr = NoFrame
    /\ workers = <<>>
    /\ peer = [x |-> Fresh(SetupList[2]), guard |-> NewGuard, chunks |-> 0,
               active |-> 0]

\* the bookkeeping of a tuning call on x named name with argument arg,
\* which makes xx of the context and g of its guard channel
Tuned(name, arg, xx, g) ==
    /\ fr.pc = "idle"
    /\ calls = 0
    /\ calls' = calls + 1
    /\ x' = xx
    /\ guard' = g
    /\ ret' = NoRet
    /\ op' = [name |-> name, arg |-> arg]
    /\ prev' = op
    /\ pre' = [x |-> x, c |-> <<>>]
    /\ seg' = NoSeg(x')
    /\ UNCHANGED <<setup, mbuf, cbuf, fr, workers, peer>>

\* x.TuneParallel(b, g)
DoTuneParallel ==
    \E t \in TuneArgs :
        Tuned("TuneParallel", t, TuneParallel(x, t[1], t[2]),
              TuneParallelGuard(guard, t[1], t[2]))

\* x.UseParallel(b)
DoUseParallel ==
    \E b \in BOOLEAN : Tuned("UseParallel", b, UseParallel(x, b), guard)

\* x.Encrypt(m, c) up to the chunk loop, for a message of two chunks and a
\* byte
EncryptCallTwo ==
    /\ fr.pc = "idle"
    /\ \E k \in {2 * ChunkLen(x.blocksPerChunk) + 1} :
          EncryptCallOn(Msg(k), ParSource(k), ParDest(k),
                        AfterLead(x, ParSource(k), ParDest(k)))
    /\ UNCHANGED <<guard, setup, seg, workers, peer>>

\* whether no Encrypt call is under way on the second context
PeerIdle == peer.chunks = 0 /\ peer.active = 0

\* a step of the second context, which leaves x and all that belongs to
\* it alone
PeerStep(p) ==
    /\ peer' = p
    /\ UNCHANGED <<x, guard, setup, op, prev, mbuf, cbuf, ret, pre, seg,
                   calls, fr, workers>>

\* TuneParallel(b, g) on the second context
PeerTuneParallel ==
    /\ PeerIdle
    /\ \E t \in PeerTuneArgs :
          PeerStep([peer EXCEPT
                      !.x = TuneParallel(@, t[1], t[2]),
                      !.guard = TuneParallelGuard(@, t[1], t[2])])

\* UseParallel(b) on the second context
PeerUseParallel ==
    /\ PeerIdle
    /\ \E b \in BOOLEAN : PeerStep([peer EXCEPT !.x = UseParallel(@, b)])

\* Encrypt on the second context, up to its chunk loop; of this call the
\* model keeps the chunk loop and the goroutines' use of the guard channel
PeerEncryptCall ==
    /\ PeerIdle
    /\ peer.x.parallel
    /\ PeerStep([peer EXCEPT !.chunks = PeerChunks])

\* the second context's chunk loop taking its place in x's guard channel
PeerLaunchOnShared ==
    /\ peer.chunks > 0
    /\ guard.len < guard.cap
    /\ guard' = [guard EXCEPT !.len = @ + 1]
    /\ peer' = [peer EXCEPT !.chunks = @ - 1, !.active = @ + 1]
    /\ UNCHANGED <<x, setup, op, prev, mbuf, cbuf, ret, pre, seg, calls, fr,
                   workers>>

\* one iteration of the second context's chunk loop: x.guard <- struct{}{}
\* on its own channel, then go func(...)
PeerLaunch ==
    /\ peer.chunks > 0
    /\ peer.guard.len < peer.guard.cap
    /\ PeerStep([peer EXCEPT !.chunks = @ - 1, !.active = @ + 1,
                             !.guard.len = @ + 1])

\* a goroutine of the second context: <-x.guard at its end
PeerRelease ==
    /\ peer.active > 0
    /\ peer.guard.len > 0
    /\ PeerStep([peer EXCEPT !.active = @ - 1, !.guard.len = @ - 1])

NextTwo ==
    \/ DoTuneParallel
    \/ DoUseParallel
    \/ EncryptCallTwo
    \/ EncryptLaunch
    \/ WorkerSeekStep
    \/ WorkerBlockStep
    \/ WorkerRelease
    \/ WorkerDone
    \/ EncryptFinish
    \/ PeerTuneParallel
    \/ PeerUseParallel
    \/ PeerEncryptCall
    \/ PeerLaunch
    \/ PeerRelease

SpecTwo == InitTwo /\ [][NextTwo]_vars

\* ------------------------------------------------------------------------
\* The setup calls, the reseeks and the calls with a short destination
\* ------------------------------------------------------------------------

\* the keys KeySetup is called with: 16 bytes, and 24 bytes (not a key)
SetupKeys == {Ramp(1, 16), Ramp(1, 24)}

\* the ivs IvSetup is called with: 8 bytes, and 12 bytes (not an iv)
SetupIvs == {Ramp(201, 8), Ramp(201, 12)}

\* the value IvSetupUint64 is called with
SetupNonces == {LeUint64(Ramp(201, 8))}

\* the values SetRounds is called with: the three round counts, and 10
\* (not a round count)
SetupRounds == {8, 10, 12, 20}

\* the block numbers of the reseeks
ReseekTargets == {Add64(Block0, 1), BlockLast}

\* the lengths <<source, destination>> of the calls whose destination is
\* shorter than their source
ShortEncrypt == {<<60, 59>>, <<1, 0>>}
ShortDecrypt == {<<64, 63>>}
ShortXORKeyStream == {<<64, 63>>}

\* The contexts this state machine starts from: a new one, one that Seek
\* has put on the last block, and one with a 16-byte key, 8 rounds and no
\* parallel processing
SetupConfigs ==
    {[setup |-> SetupList[1], x |-> Fresh(SetupList[1]),
      op |-> [name |-> "New", arg |-> <<>>]],
     [setup |-> SetupList[1], x |-> Seek(Fresh(SetupList[1]), BlockLast),
      op |-> [name |-> "Seek", arg |-> BlockLast]],
     [setup |-> SetupList[2], x |-> UseParallel(Fresh(SetupList[2]), FALSE),
      op |-> [name |-> "UseParallel", arg |-> <<>>]]}

InitSetup ==
    /\ \E cfg \in SetupConfigs :
          setup = cfg.setup /\ x = cfg.x /\ op = cfg.op
    /\ guard = NewGuard
    /\ prev = [name |-> "none", arg |-> <<>>]
    /\ mbuf = <<>>
    /\ cbuf = <<>>
    /\ ret = NoRet
    /\ pre = [x |-> x, c |-> <<>>]
    /\ seg = NoSeg(x)
    /\ calls = 0
    /\ fr = NoFrame
    /\ workers = <<>>
    /\ peer = NoPeer

\* the bookkeeping of a setup call named name with argument arg: it panics
\* and changes nothing when panics, and makes xx of the context, and
\* setup2 of what it is set up with, when not
SetupCalled(name, arg, panics, xx, setup2) ==
    /\ calls < MaxCalls
    /\ calls' = calls + 1
    /\ x' = IF panics THEN x ELSE xx
    /\ setup' = IF panics THEN setup ELSE setup2
    /\ mbuf' = <<>>
    /\ cbuf' = <<>>
    /\ ret' = [n |-> 0, err |-> "nil", panicked |-> panics]
    /\ op' = [name |-> name, arg |-> arg]
    /\ prev' = op
    /\ pre' = [x |-> x, c |-> <<>>]
    /\ seg' = NoSeg(x')
    /\ UNCHANGED <<guard, fr, workers, peer>>

\* x.KeySetup(key)
DoKeySetup ==
    \E key \in SetupKeys :
        SetupCalled("KeySetup", key, KeySetupPanics(key), KeySetup(x, key),
                    [setup EXCEPT !.key = key])

\* x.IvSetup(iv)
DoIvSetup ==
    \E iv \in SetupIvs :
        SetupCalled("IvSetup", iv, IvSetupPanics(iv), IvSetup(x, iv),
                    [setup EXCEPT !.iv = iv])

\* x.IvSetupUint64(n)
DoIvSetupUint64 ==
    \E n \in SetupNonces :
        SetupCalled("IvSetupUint64", n, FALSE, IvSetupUint64(x, n),
                    [setup EXCEPT !.iv = LePutUint64(n)])

\* x.SetRounds(r)
DoSetRounds ==
    \E r \in SetupRounds :
        SetupCalled("SetRounds", r, SetRoundsPanics(r), SetRounds(x, r),
                    [setup EXCEPT !.rounds = r])

\* x.Seek(n) to reposition a context
DoReseek == SeekTo(ReseekTargets)

\* x.Encrypt(m, c) with len(c) < len(m)
DoEncryptShort ==
    \E p \in ShortEncrypt :
        Called("Encrypt", p[1], Msg(p[1]), Fill(p[2]),
               Encrypt(x, Msg(p[1]), Fill(p[2])))

\* x.Decrypt(c, m) with len(m) < len(c)
DoDecryptShort ==
    \E p \in ShortDecrypt :
        Called("Decrypt", p[1], Msg(p[1]), Fill(p[2]),
               Decrypt(x, Msg(p[1]), Fill(p[2])))

\* x.XORKeyStream(dst, src) with len(dst) < len(src)
DoXORKeyStreamShort ==
    \E p \in ShortXORKeyStream :
        Called("XORKeyStream", p[1], Msg(p[1]), Fill(p[2]),
               XORKeyStream(x, Fill(p[2]), Msg(p[1])))

NextSetup ==
    \/ DoKeySetup
    \/ DoIvSetup
    \/ DoIvSetupUint64
    \/ DoSetRounds
    \/ DoReseek
    \/ DoRead
    \/ DoEncryptShort
    \/ DoDecryptShort
    \/ DoXORKeyStreamShort

SpecSetup == InitSetup /\ [][NextSetup]_vars

\* ------------------------------------------------------------------------
\* Properties of the calls
\* ------------------------------------------------------------------------

\* the calls that generate keystream
GenOps == {"Encrypt", "Decrypt", "Keystream", "XORKeyStream", "Read"}

\* EXHAUSTED: the flag is set and the buffered final block is used up
Exhausted(xx) == xx.eof /\ xx.next >= blockLen

\* the part of a context that later calls can see when the cursor is at
\* blockLen: the input words, the cursor, the flag and the round count
Visible(xx) ==
    [input |-> xx.input, next |-> xx.next, eof |-> xx.eof,
     rounds |-> xx.rounds]

\* the first k bytes of the keystream of xx, generated sequentially
RefStream(xx, k) == Encrypt(UseParallel(xx, FALSE), Zeros(k), Fill(k)).c

\* the byte-wise XOR of two sequences of the same length
XorSeq(a, b) == [i \in 1..Len(a) |-> XorByte(a[i], b[i])]

\* C1: when an Encrypt call on a context with parallel processing enabled
\* has returned, whatever the order its goroutines ran in, the destination
\* holds the bytes, and the call returned the n and err, of Encrypt on the
\* same context with parallel processing disabled
C1_ParallelIsSequential ==
    (fr.pc = "done" /\ pre.x.parallel) =>
        LET seq == Encrypt(UseParallel(pre.x, FALSE), mbuf, pre.c)
        IN  /\ cbuf = seq.c
            /\ ret = [n |-> seq.n, err |-> seq.err, panicked |-> seq.panicked]

\* a call that ran three goroutines of two blocks each, after a leading
\* loop and before a sequential tail, has returned
C1_Witness ==
    /\ fr.pc = "done"
    /\ Len(workers) = 3
    /\ x.blocksPerChunk = 2
    /\ pre.x.next = LeadSkip
    /\ fr.n < Len(mbuf)
    /\ ret.n = Len(mbuf)

\* C2: the bytes written by consecutive Encrypt calls on one context,
\* concatenated, are the bytes one Encrypt call writes for the concatenated
\* input from the state the first call started in, and both leave the
\* counter, the cursor and the exhaustion flag the same
C2_SegmentInvariance ==
    seg.k >= 1 =>
        LET one == Encrypt(seg.x0, seg.m, Fill(Len(seg.m)))
        IN  /\ ~one.panicked
            /\ one.c = seg.c
            /\ one.n = Len(seg.c)
            /\ Visible(one.x) = Visible(x)

\* two segments of 60 and 200 bytes, the second split over goroutines
C2_Witness ==
    /\ seg.k = 2
    /\ Len(seg.m) = 260
    /\ op.arg = 200
    /\ seg.x0.parallel
    /\ seg.x0.blocksPerChunk = 1
    /\ ~seg.x0.eof

\* C3: decrypting what Encrypt wrote, with the context as it was before
\* the call and, when that context was at a block boundary, with a new
\* context for the same key, iv and rounds sought to the same counter,
\* gives back the message; all of it when Encrypt returned no error
C3_RoundTrip ==
    (op.name = "Encrypt" /\ ~ret.panicked /\ ~Exhausted(pre.x)) =>
        LET ct   == SubSeq(cbuf, 1, ret.n)
            same == Decrypt(pre.x, ct, Fill(ret.n))
            new  == Decrypt(Seek(Fresh(setup), GetCounter(pre.x)), ct,
                            Fill(ret.n))
        IN  /\ ret.err = "nil" => ret.n = Len(mbuf)
            /\ ~same.panicked
            /\ same.c = SubSeq(mbuf, 1, ret.n)
            /\ (pre.x.next = blockLen /\ ~pre.x.eof) =>
                   ~new.panicked /\ new.c = SubSeq(mbuf, 1, ret.n)

\* 200 bytes under a 32-byte key and 12 rounds, split over goroutines
C3_Witness ==
    /\ op.name = "Encrypt"
    /\ ret = [n |-> 200, err |-> "nil", panicked |-> FALSE]
    /\ setup = SetupList[3]
    /\ pre.x.parallel
    /\ pre.x.blocksPerChunk = 1
    /\ pre.x.next = blockLen
    /\ cbuf # mbuf

\* C4: with the zero 32-byte key, the zero iv, 20 rounds and counter 0,
\* Encrypt of 128 zero bytes writes the two reference blocks
C4_ReferenceVector ==
    (/\ op.name = "Encrypt"
     /\ setup = SetupList[1]
     /\ pre.x.rounds = 20
     /\ GetCounter(pre.x) = Block0
     /\ pre.x.next = blockLen
     /\ ~pre.x.eof
     /\ mbuf = Zeros(128))
        => cbuf = want /\ ret = [n |-> 128, err |-> "nil", panicked |-> FALSE]

\* the reference blocks have been written: 76 b8 e0 ad ..., 9f 07 e7 be ...
C4_Witness ==
    /\ op.name = "Encrypt"
    /\ setup = SetupList[1]
    /\ GetCounter(pre.x) = Block0
    /\ pre.x.next = blockLen
    /\ mbuf = Zeros(128)
    /\ SubSeq(cbuf, 1, 4) = <<118, 184, 224, 173>>
    /\ SubSeq(cbuf, 65, 68) = <<159, 7, 231, 190>>

\* what Encrypt of op.arg zero bytes does from the state before the call
EncryptOfZeros == Encrypt(pre.x, Zeros(op.arg), pre.c)

\* C5 as stated: in every state and for every length Keystream leaves the
\* buffer and the context as Encrypt of that many zero bytes does
C5_KeystreamIsEncryptOfZeros ==
    op.name = "Keystream" =>
        /\ cbuf = EncryptOfZeros.c
        /\ x = EncryptOfZeros.x

\* the block numbers b and offsets k with b + k = n, no wrap in between
RefPoints(n) ==
    {p \in (1..Len(Anchors)) \X (0..MaxRefOffset) :
        /\ Add64(Anchors[p[1]], p[2]) = n
        /\ ~Gt64(Anchors[p[1]], n)}

\* block k (from 0) of the uninterrupted keystream that a new context for
\* setup u generates from block number b on
RefBlock(u, b, k) ==
    SubSeq(RefStream(Seek(Fresh(u), b), blockLen * (k + 1)),
           blockLen * k + 1, blockLen * (k + 1))

\* C6: Seek(n) and then Keystream on a blockLen-byte buffer gives block n
\* of the keystream, that is block k of the uninterrupted keystream from
\* block number b on whenever n = b + k
C6_RandomAccess ==
    (op.name = "Keystream" /\ prev.name = "Seek" /\ op.arg = blockLen) =>
        /\ ~ret.panicked
        /\ RefPoints(prev.arg) # {}
        /\ \A p \in RefPoints(prev.arg) :
               cbuf = RefBlock(setup, Anchors[p[1]], p[2])

\* Seek(2^32) on a context that has been used, then Keystream of a block:
\* two blocks after block 2^32 - 2
C6_Witness ==
    /\ op.name = "Keystream"
    /\ prev.name = "Seek"
    /\ op.arg = blockLen
    /\ prev.arg = Add64(BlockCarry, 2)
    /\ <<2, 2>> \in RefPoints(prev.arg)
    /\ calls = 3
    /\ ~ret.panicked

\* the lengths Seek(0) is probed with
ProbeLens == {1, 64, 200}

\* what a caller sees of an Encrypt outcome: the bytes, n, err, the panic
\* and the context as far as later calls can see it
Outcome(r) ==
    [c |-> r.c, n |-> r.n, err |-> r.err, panicked |-> r.panicked,
     x |-> Visible(r.x)]

\* C7: after Seek(0) the context is, as far as calls can see, the context
\* New(key, iv) gives with the same round count, and Encrypt does on it
\* what it does on that new context
C7_SeekZeroResets ==
    (op.name = "Seek" /\ op.arg = Block0) =>
        LET new == SetRounds(New(setup.key, setup.iv), x.rounds)
        IN  /\ Visible(x) = Visible(new)
            /\ \A k \in ProbeLens :
                   Outcome(Encrypt(x, Msg(k), Fill(k)))
                       = Outcome(Encrypt(new, Msg(k), Fill(k)))

\* Seek(0) on an exhausted context
C7_Witness ==
    /\ op.name = "Seek"
    /\ op.arg = Block0
    /\ Exhausted(pre.x)
    /\ x.output # Zeros(blockLen)

\* C8: after Seek(2^64 - 1), Read or Encrypt of exactly blockLen bytes
\* returns blockLen and io.EOF, and a Read of one byte or more after that
\* panics
C8_FinalBlockThenPanic ==
    /\ (op.name = "Seek" /\ op.arg = BlockLast) =>
           \A r \in {Read(x, Fill(blockLen)),
                     Encrypt(x, Msg(blockLen), Fill(blockLen))} :
               /\ ~r.panicked /\ r.n = blockLen /\ r.err = "EOF"
               /\ \A k \in {1, blockLen - 1, blockLen, blockLen + 1} :
                      Read(r.x, Fill(k)).panicked
    /\ (op.name = "Read" /\ prev.name = "Seek" /\ op.arg = blockLen
            /\ prev.arg = BlockLast) =>
           ret = [n |-> blockLen, err |-> "EOF", panicked |-> FALSE]
    /\ (op.name = "Read" /\ prev.name = "Read" /\ pre.x.eof
            /\ pre.x.next >= blockLen) => ret.panicked

\* the Read after the Read that returned io.EOF has panicked
C8_Witness ==
    /\ op.name = "Read"
    /\ prev = [name |-> "Read", arg |-> blockLen]
    /\ calls = 3
    /\ GetCounter(pre.x) = Block0
    /\ Exhausted(pre.x)
    /\ ret.panicked

\* C9 as stated: every generating call made in the EXHAUSTED state panics
C9_ExhaustedCallPanics ==
    (op.name \in GenOps /\ Exhausted(pre.x)) => ret.panicked

\* C10 as stated: Encrypt returns the number of bytes it wrote, each the
\* source byte XOR the next keystream byte; no error means n = len(m);
\* io.EOF comes with n <= len(m) and is returned exactly when, at return,
\* the exhaustion flag is set and the cursor is blockLen
C10_EncryptReturn ==
    (op.name = "Encrypt" /\ ~ret.panicked) =>
        /\ ret.n <= Len(mbuf)
        /\ SubSeq(cbuf, 1, ret.n)
               = XorSeq(SubSeq(mbuf, 1, ret.n),
                        SubSeq(RefStream(pre.x, ret.n), 1, ret.n))
        /\ SubSeq(cbuf, ret.n + 1, Len(cbuf))
               = SubSeq(pre.c, ret.n + 1, Len(pre.c))
        /\ ret.err = "nil" => ret.n = Len(mbuf)
        /\ (ret.err = "EOF") <=> (x.eof /\ x.next = blockLen)

\* what a call hands back, as ret records it
Ret(r) == [n |-> r.n, err |-> r.err, panicked |-> r.panicked]

\* C11 as stated: in every state and for every buffer b, Read(b) writes
\* the bytes, returns the n and the nil or io.EOF, panics or not, and
\* leaves the context as Encrypt of len(b) zero bytes into b does
C11_ReadIsEncryptOfZeros ==
    op.name = "Read" =>
        /\ cbuf = EncryptOfZeros.c
        /\ ret = Ret(EncryptOfZeros)
        /\ x = EncryptOfZeros.x

\* what Encrypt does with the source and the destination of the last call
\* from the state before that call
EncryptOfSame == Encrypt(pre.x, mbuf, pre.c)

\* C12 as stated: in every state and for every pair of buffers,
\* Decrypt(c, m) writes the bytes, returns the n and err, panics or not,
\* and leaves the context as Encrypt(c, m) does
C12_DecryptIsEncrypt ==
    op.name = "Decrypt" =>
        /\ cbuf = EncryptOfSame.c
        /\ ret = Ret(EncryptOfSame)
        /\ x = EncryptOfSame.x

\* C13 as stated: in every state and for every src no longer than dst,
\* XORKeyStream(dst, src) writes into dst the bytes, and leaves the context
\* in the state, that Encrypt(src, dst) does
C13_XORKeyStreamIsEncrypt ==
    (op.name = "XORKeyStream" /\ Len(pre.c) >= Len(mbuf)) =>
        /\ cbuf = EncryptOfSame.c
        /\ x = EncryptOfSame.x

\* the calls that return neither a count nor an error
StreamOps == {"Keystream", "XORKeyStream"}

\* C14 as stated: when Keystream or XORKeyStream returns normally, the
\* Encrypt call inside it has processed every byte of the request, and the
\* buffer holds the source XOR the keystream from the position the call
\* started at (for Keystream the source is all zero)
C14_StreamCallFillsOrPanics ==
    (op.name \in StreamOps /\ ~ret.panicked) =>
        /\ EncryptOfSame.n = Len(mbuf)
        /\ cbuf = XorSeq(mbuf, RefStream(pre.x, Len(mbuf)))

\* the calls that check the length of their destination
CheckedOps == {"Encrypt", "Decrypt", "XORKeyStream"}

\* C15: Encrypt, Decrypt and XORKeyStream with a non-empty source and a
\* destination shorter than the source panic, and the destination and
\* every field of the context are as they were before the call
C15_ShortDestinationPanics ==
    (op.name \in CheckedOps /\ Len(mbuf) # 0 /\ Len(pre.c) < Len(mbuf)) =>
        /\ ret.panicked
        /\ cbuf = pre.c
        /\ x = pre.x

\* Encrypt with a destination one byte short has panicked on a context
\* that has unused bytes in its buffered block
C15_Witness ==
    /\ op.name = "Encrypt"
    /\ Len(mbuf) = 60
    /\ Len(pre.c) = 59
    /\ pre.x.next < blockLen
    /\ ~pre.x.eof
    /\ ret.panicked
    /\ cbuf = Fill(59)

\* the key lengths and the round counts that are accepted
KeyLens == {16, 32}
RoundCounts == {8, 12, 20}

\* the call panicked and left every field of the context as it was
Rejected == ret.panicked /\ x = pre.x

\* C16: KeySetup with a key of a length other than 16 or 32, IvSetup with
\* an iv of a length other than 8 and SetRounds with a value other than 8,
\* 12 or 20 panic and leave every field of the context as it was; the
\* three checks reject exactly those lengths and values
C16_SetupRejects ==
    /\ (op.name = "KeySetup" /\ Len(op.arg) \notin KeyLens) => Rejected
    /\ (op.name = "IvSetup" /\ Len(op.arg) # 8) => Rejected
    /\ (op.name = "SetRounds" /\ op.arg \notin RoundCounts) => Rejected
    /\ \A k \in 0..MaxSetupLen :
           /\ KeySetupPanics(Zeros(k)) <=> k \notin KeyLens
           /\ IvSetupPanics(Zeros(k)) <=> k # 8
    /\ \A r \in -1..MaxRounds : SetRoundsPanics(r) <=> r \notin RoundCounts

\* IvSetup with an iv of 12 bytes has panicked on an exhausted context
C16_Witness ==
    /\ op.name = "IvSetup"
    /\ Len(op.arg) = 12
    /\ Exhausted(pre.x)
    /\ Rejected

\* the calls that set the iv, and the 8 bytes the last one set
IvOps == {"IvSetup", "IvSetupUint64"}
IvBytes == IF op.name = "IvSetupUint64" THEN LePutUint64(op.arg) ELSE op.arg

\* the little-endian uint32 of bytes i .. i + 3 (from 0) of iv
NonceWord(iv, i) ==
    <<iv[i + 1] + 256 * iv[i + 2], iv[i + 3] + 256 * iv[i + 4]>>

\* C17: after IvSetup with an iv of 8 bytes, or IvSetupUint64, in any
\* state of the context, words 14 and 15 are the iv read little-endian,
\* the block counter is 0, the exhaustion flag is clear, the cursor is
\* blockLen, the key words and the round count are what they were, and
\* Encrypt does what it does on New(key, iv) with that round count
C17_IvSetupResets ==
    (op.name \in IvOps /\ ~ret.panicked) =>
        LET new == SetRounds(New(setup.key, IvBytes), x.rounds)
        IN  /\ At(x.input, 14) = NonceWord(IvBytes, 0)
            /\ At(x.input, 15) = NonceWord(IvBytes, 4)
            /\ GetCounter(x) = Block0
            /\ ~x.eof
            /\ x.next = blockLen
            /\ SubSeq(x.input, 1, 12) = SubSeq(pre.x.input, 1, 12)
            /\ x.rounds = pre.x.rounds
            /\ Visible(x) = Visible(new)
            /\ \A k \in ProbeLens :
                   Outcome(Encrypt(x, Msg(k), Fill(k)))
                       = Outcome(Encrypt(new, Msg(k), Fill(k)))

\* IvSetup with another iv on an exhausted context
C17_Witness ==
    /\ op.name = "IvSetup"
    /\ ~ret.panicked
    /\ Exhausted(pre.x)
    /\ At(pre.x.input, 14) # At(x.input, 14)
    /\ x.output # Zeros(blockLen)

\* the calls that reposition a context, and the block number the last one
\* put it on
ReseekOps == {"Seek"} \cup IvOps
NewPosition == IF op.name = "Seek" THEN op.arg ELSE Block0

\* a context newly made for the key, iv and round count of x and put on
\* NewPosition
Repositioned == Seek(Fresh(setup), NewPosition)

\* C18: after Seek or IvSetup in any state of the context, EXHAUSTED
\* included, the exhaustion flag is clear, and each of the five generating
\* calls returns without a panic what it returns on a context newly made
\* and put on the new position: Read and Keystream the keystream from that
\* position on
C18_ReseekRecovers ==
    (op.name \in ReseekOps /\ ~ret.panicked) =>
        /\ ~x.eof
        /\ ~Exhausted(x)
        /\ \A k \in ProbeLens :
               /\ \A r \in {Read(x, Fill(k)), Keystream(x, Fill(k))} :
                      ~r.panicked /\ r.c = RefStream(Repositioned, k)
               /\ \A r \in {Encrypt(x, Msg(k), Fill(k))} :
                      /\ ~r.panicked
                      /\ Outcome(r)
                             = Outcome(Encrypt(Repositioned, Msg(k), Fill(k)))
               /\ \A r \in {Decrypt(x, Msg(k), Fill(k))} :
                      /\ ~r.panicked
                      /\ Outcome(r)
                             = Outcome(Decrypt(Repositioned, Msg(k), Fill(k)))
               /\ \A r \in {XORKeyStream(x, Fill(k), Msg(k))} :
                      /\ ~r.panicked
                      /\ Outcome(r) = Outcome(XORKeyStream(Repositioned,
                                                          Fill(k), Msg(k)))

\* Seek on a context put on the last block, after a Read that returned
\* io.EOF and a Read of one byte: that Read found the context exhausted and
\* panicked
C18_Witness ==
    /\ op.name = "Seek"
    /\ prev = [name |-> "Read", arg |-> 1]
    /\ calls = 3
    /\ Exhausted(pre.x)
    /\ Read(pre.x, Fill(1)).panicked
    /\ ~x.eof

\* the context with the tuning New gives it: parallel processing enabled,
\* blocksPerChunk blocks for a goroutine
Untuned(xx) == [xx EXCEPT !.parallel = TRUE, !.blocksPerChunk = blocksPerChunk]

\* what a caller gets from a call: the bytes, n, err and the panic
Seen(r) == [c |-> r.c, n |-> r.n, err |-> r.err, panicked |-> r.panicked]

\* C19: when an Encrypt call on a context tuned with TuneParallel(b, g),
\* for any b and g from 1, has returned, whatever the order its goroutines
\* ran in, the bytes written and the n and err returned are those of the
\* call on the context untuned, with parallel processing enabled or
\* disabled; and Decrypt, Read, Keystream and XORKeyStream on the tuned
\* context give the bytes, n and err they give on the untuned one
C19_TuningKeepsOutput ==
    fr.pc = "done" =>
        \A u \in {Untuned(pre.x), UseParallel(pre.x, FALSE)} :
            /\ [c |-> cbuf, n |-> ret.n, err |-> ret.err,
                panicked |-> ret.panicked]
                   = Seen(Encrypt(u, mbuf, pre.c))
            /\ Seen(Decrypt(pre.x, mbuf, pre.c))
                   = Seen(Decrypt(u, mbuf, pre.c))
            /\ Seen(Read(pre.x, pre.c)) = Seen(Read(u, pre.c))
            /\ Seen(Keystream(pre.x, pre.c)) = Seen(Keystream(u, pre.c))
            /\ Seen(XORKeyStream(pre.x, pre.c, mbuf))
                   = Seen(XORKeyStream(u, pre.c, mbuf))

\* a call tuned to one block for a goroutine and one goroutine at a time
\* has run three goroutines and returned
C19_Witness ==
    /\ fr.pc = "done"
    /\ x.blocksPerChunk = 1
    /\ guard.cap = 1
    /\ Len(workers) = 3
    /\ ret.n = Len(mbuf)
    /\ Untuned(pre.x) # pre.x

\* what Encrypt of the bytes of the last call does from the state before
\* it with a destination of its own
EncryptApart == Encrypt(pre.x, mbuf, Fill(Len(mbuf)))

\* C20: when an Encrypt call that was given one slice as source and
\* destination has returned, whatever the order its goroutines ran in, the
\* slice holds in its first n bytes the bytes, and the call returned the n
\* and err, of Encrypt from the same source and state into a destination
\* of its own, and the bytes after them are the source's; so it is with
\* parallel processing disabled
C20_InPlace ==
    (fr.pc = "done" /\ fr.inplace) =>
        /\ ret = Ret(EncryptApart)
        /\ SubSeq(cbuf, 1, ret.n) = SubSeq(EncryptApart.c, 1, ret.n)
        /\ SubSeq(cbuf, ret.n + 1, Len(cbuf))
               = SubSeq(mbuf, ret.n + 1, Len(mbuf))
        /\ Encrypt(UseParallel(pre.x, FALSE), InPlace, mbuf).c = cbuf

\* an in-place call that ran three goroutines of two blocks each, after a
\* leading loop and before a sequential tail, has returned
C20_Witness ==
    /\ fr.pc = "done"
    /\ fr.inplace
    /\ pre.c = mbuf
    /\ Len(workers) = 3
    /\ x.blocksPerChunk = 2
    /\ pre.x.next = LeadSkip
    /\ fr.n < Len(mbuf)
    /\ ret.n = Len(mbuf)
    /\ cbuf # mbuf

\* how many blocks a call generates that delivers n bytes from a context
\* whose cursor is next: none while the buffered block lasts, then one for
\* every blockLen bytes or part of them
NewBlocks(n, next) ==
    IF n <= blockLen - next THEN 0
    ELSE (n - (blockLen - next) + blockLen - 1) \div blockLen

\* C21: GetCounter returns n after Seek(n), and n + k modulo 2^64 after k
\* further blocks have been generated, by the byte loops, by the
\* goroutines or by both: 2^32 - 2 and two blocks make 2^32, 2^64 - 1 and
\* one block make 0
C21_CounterCounts ==
    /\ op.name = "Seek" => GetCounter(x) = op.arg
    /\ (op.name = "Keystream" /\ prev.name = "Seek") =>
           GetCounter(x) = Add64(prev.arg, NewBlocks(op.arg, blockLen))
    /\ fr.pc = "done" =>
           GetCounter(x)
               = Add64(GetCounter(pre.x), NewBlocks(ret.n, pre.x.next))
    /\ Add64(BlockCarry, 2) = <<0, 0, 1, 0>>
    /\ Add64(BlockLast, 1) = Block0

\* a call that started below 2^32 has left the counter above it, after a
\* leading loop, three goroutines and a sequential tail
C21_Witness ==
    /\ fr.pc = "done"
    /\ At(pre.x.input, 13) = Zero32
    /\ At(x.input, 13) = <<1, 0>>
    /\ pre.x.next = LeadSkip
    /\ Len(workers) = 3
    /\ fr.n < Len(mbuf)
    /\ ret.n = Len(mbuf)

\* the context xx set to r rounds and placed at the start of its block
AtRounds(xx, r) == Seek(SetRounds(xx, r), GetCounter(xx))

\* the length of the messages the round counts are tried on
RoundsLen == 100

\* C22: after SetRounds(8), SetRounds(12) or SetRounds(20) the context
\* has that round count and Decrypt from the same state gives back what
\* Encrypt was given; for the key, the nonce and the counter of the
\* context, the keystreams of the three round counts differ from each
\* other
C22_RoundCounts ==
    (op.name = "SetRounds" /\ ~ret.panicked) =>
        /\ op.arg \in RoundCounts
        /\ x.rounds = op.arg
        /\ ~Exhausted(x) =>
               LET e == Encrypt(x, Msg(RoundsLen), Fill(RoundsLen))
                   d == Decrypt(x, SubSeq(e.c, 1, e.n), Fill(e.n))
               IN  /\ ~e.panicked /\ ~d.panicked
                   /\ e.n > 0
                   /\ d.n = e.n
                   /\ d.c = SubSeq(Msg(RoundsLen), 1, e.n)
                   /\ SubSeq(e.c, 1, e.n) # d.c
        /\ \A r1, r2 \in RoundCounts :
               r1 # r2 =>
                   RefStream(AtRounds(x, r1), blockLen)
                       # RefStream(AtRounds(x, r2), blockLen)

\* SetRounds(12) on a context that ran 8 rounds, under a 16-byte key
C22_Witness ==
    /\ op.name = "SetRounds"
    /\ op.arg = 12
    /\ ~ret.panicked
    /\ pre.x.rounds = 8
    /\ x.rounds = 12
    /\ setup.key = Ramp(1, 16)
    /\ ~Exhausted(x)

\* C23: TuneParallel(b, g) stores b as the blocks of a goroutine when
\* b > 0 and keeps the stored value when not, makes a new guard channel of
\* capacity g when g > 0 and keeps the channel when not, and changes no
\* other field of the context: not the key, the nonce and the counter in
\* the input words, the buffered block, the cursor, the exhaustion flag,
\* the round count or the parallel flag
C23_TuneParallelFrame ==
    [][(op'.name = "TuneParallel" /\ calls' = calls + 1) =>
          /\ x'.blocksPerChunk
                 = IF op'.arg[1] > 0 THEN op'.arg[1] ELSE x.blocksPerChunk
          /\ [x' EXCEPT !.blocksPerChunk = x.blocksPerChunk] = x
          /\ guard' = IF op'.arg[2] > 0 THEN MakeChan(op'.arg[2]) ELSE guard
          /\ op'.arg[2] <= 0 => guard'.cap = guard.cap
          /\ op'.arg[1] <= 0 =>
                 /\ x' = x
                 /\ op'.arg[2] > 0 => guard'.cap # guard.cap
          /\ setup' = setup]_vars

\* an Encrypt call has run two goroutines, one at a time, after
\* TuneParallel(-1, 1)
C23_Witness ==
    /\ prev = [name |-> "TuneParallel", arg |-> <<-1, 1>>]
    /\ op.name = "Encrypt"
    /\ fr.pc = "done"
    /\ pre.x.blocksPerChunk = 1
    /\ guard = MakeChan(1)
    /\ Len(workers) = 2

\* the goroutines of the Encrypt call on x that hold a place in its guard
\* channel: started, and not yet past <-x.guard
Holding == {i \in 1..Len(workers) : workers[i].pc \in {"seek", "loop", "release"}}

\* each context's channel holds the places of its own goroutines and no
\* more than its capacity, and a chunk loop goes on whenever its own
\* channel has room, full as the other's may be
OwnGuard ==
    /\ guard.len = Cardinality(Holding)
    /\ guard.len <= guard.cap
    /\ peer.guard.len = peer.active
    /\ peer.guard.len <= peer.guard.cap
    /\ (fr.pc = "chunks" /\ fr.chunk < fr.chunkCount
            /\ guard.len < guard.cap) => ENABLED EncryptLaunch
    /\ (peer.chunks > 0 /\ peer.guard.len < peer.guard.cap) =>
           ENABLED PeerLaunch

\* a step of one context changes nothing of the other: not its fields,
\* its channel or the places taken in it
OwnStep ==
    /\ peer' # peer => UNCHANGED <<x, guard, fr, workers, setup>>
    /\ <<x, guard, fr, workers>>' # <<x, guard, fr, workers>> =>
           /\ peer'.x.blocksPerChunk = peer.x.blocksPerChunk
           /\ peer'.x.parallel = peer.x.parallel
           /\ peer'.guard.cap = peer.guard.cap
           /\ peer'.guard.len = peer.guard.len
           /\ peer' = peer

\* C24: every Ctx has its own parallel flag, blocks per goroutine and guard
\* channel: TuneParallel, UseParallel and the steps of an Encrypt call on
\* one context leave those of the other, and the places taken in its
\* channel, as they were; with Encrypt under way on both, each runs no more
\* goroutines than its own channel holds and neither waits for a place in
\* the other's
C24_OwnParameters == []OwnGuard /\ [][OwnStep]_vars

\* Encrypt is under way on both contexts: the second has filled its channel
\* of one place and has a chunk left, x has started a goroutine and starts
\* another
C24_Witness ==
    /\ fr.pc = "chunks"
    /\ fr.chunk < fr.chunkCount
    /\ Len(workers) = 1
    /\ guard.len = 1
    /\ guard.cap > 1
    /\ peer.guard = [cap |-> 1, len |-> 1]
    /\ peer.chunks > 0
    /\ peer.x.blocksPerChunk # x.blocksPerChunk
    /\ ENABLED EncryptLaunch

\* the goroutines of the call that are past <-x.guard
Released == {i \in 1..Len(workers) : workers[i].pc \in {"exit", "done"}}

\* C25: at every point of an Encrypt call the goroutines that are started
\* and not finished are no more than the capacity of the guard channel,
\* 300 unless TuneParallel changed it: each holds the place the chunk loop
\* took for it before it was started, and gives it up only after the last
\* byte of its chunk is written
C25_WorkerBound ==
    /\ Cardinality(Holding) <= guard.cap
    /\ guard.len = Cardinality(Holding)
    /\ Holding \cup Released = 1..Len(workers)
    /\ \A i \in Released :
           /\ workers[i].j = x.blocksPerChunk
           /\ workers[i].ni = (blockLen - pre.x.next)
                                  + i * ChunkLen(x.blocksPerChunk)
    /\ NewGuard.cap = 300

\* the chunk loop waits with a chunk left: the two goroutines it started
\* fill the channel
C25_Witness ==
    /\ fr.pc = "chunks"
    /\ fr.chunk < fr.chunkCount
    /\ guard.cap = 2
    /\ guard.len = 2
    /\ Cardinality(Holding) = 2
    /\ ~ENABLED EncryptLaunch

\* the index after the last byte that the chunks of the call cover
ChunksEnd ==
    (blockLen - pre.x.next) + fr.chunkCount * ChunkLen(x.blocksPerChunk)

\* C26: while a goroutine of the call has not finished, the caller has not
\* repositioned the context, has written nothing after the chunks and has
\* not returned; when Encrypt has returned every goroutine it started has
\* written its whole chunk and is over, and the guard channel is empty
C26_Barrier ==
    /\ (\E i \in 1..Len(workers) : workers[i].pc # "done") =>
           /\ fr.pc = "chunks"
           /\ ret = NoRet
           /\ GetCounter(x) = GetCounter(pre.x)
           /\ x.next = blockLen
           /\ SubSeq(cbuf, ChunksEnd + 1, Len(cbuf))
                  = SubSeq(pre.c, ChunksEnd + 1, Len(pre.c))
    /\ fr.pc = "done" =>
           /\ \A i \in 1..Len(workers) :
                  workers[i].pc = "done" /\ workers[i].j = pre.x.blocksPerChunk
           /\ fr.wg = 0
           /\ guard.len = 0

\* the chunk loop is over and the caller waits: of the three goroutines one
\* is past <-x.guard and not past wg.Done(), one still writes
C26_Witness ==
    /\ fr.pc = "chunks"
    /\ fr.chunk = fr.chunkCount
    /\ Len(workers) = 3
    /\ fr.wg > 0
    /\ ChunksEnd < Len(mbuf)
    /\ \E i \in 1..Len(workers) : workers[i].pc = "exit"
    /\ \E i \in 1..Len(workers) : workers[i].pc = "loop"
    /\ ~ENABLED EncryptFinish

\* the positions (from 1) of the destination that the leading loop of the
\* call under way in state s covers, those of chunk i and those of the
\* sequential loop after the chunks
LeadPart(s) == 1..(blockLen - s.pre.x.next)
ChunkPart(s, i) ==
    ((blockLen - s.pre.x.next) + (i - 1) * ChunkLen(s.x.blocksPerChunk) + 1)
        ..((blockLen - s.pre.x.next) + i * ChunkLen(s.x.blocksPerChunk))
TailPart(s) ==
    ((blockLen - s.pre.x.next)
         + s.fr.chunkCount * ChunkLen(s.x.blocksPerChunk) + 1)..Len(s.mbuf)

\* the positions where b differs from a
Differ(a, b) == {k \in 1..Len(a) : a[k] # b[k]}

\* the state as a record
Now == [x |-> x, pre |-> pre, mbuf |-> mbuf, fr |-> fr]

\* what a step of the call writes: the step that enters the chunk loop its
\* leading part, a step of goroutine i positions of chunk i, the step that
\* starts a goroutine nothing, the step after the barrier the part after
\* the chunks
StepWrites ==
    /\ (fr.pc = "idle" /\ fr'.pc = "chunks") =>
           Differ(pre'.c, cbuf') \subseteq LeadPart(Now')
    /\ (fr.pc = "chunks" /\ fr'.pc = "chunks") =>
           /\ Len(workers') > Len(workers) => cbuf' = cbuf
           /\ \A i \in 1..Len(workers) :
                  workers'[i] # workers[i] =>
                      /\ Differ(cbuf, cbuf') \subseteq ChunkPart(Now, i)
                      /\ workers[i].pc = "loop" =>
                             Differ(cbuf, cbuf') \subseteq
                                 (workers[i].ni + 1)..workers'[i].ni
    /\ (fr.pc = "chunks" /\ fr'.pc = "done") =>
           Differ(cbuf, cbuf') \subseteq TailPart(Now)

\* goroutine i of state s starts at the first position of chunk i and
\* has written whole blocks from there on, all of them in chunk i
InChunk(s, i) ==
    /\ s.workers[i].ni - blockLen * s.workers[i].j
           = (blockLen - s.pre.x.next)
                 + (i - 1) * ChunkLen(s.x.blocksPerChunk)
    /\ (s.workers[i].ni - blockLen * s.workers[i].j + 1)..s.workers[i].ni
           \subseteq ChunkPart(s, i)

\* the parts of the destination do not overlap
Apart(s) ==
    /\ \A i, k \in 1..s.fr.chunkCount :
           i # k => ChunkPart(s, i) \cap ChunkPart(s, k) = {}
    /\ \A i \in 1..s.fr.chunkCount :
           /\ ChunkPart(s, i) \cap LeadPart(s) = {}
           /\ ChunkPart(s, i) \cap TailPart(s) = {}
           /\ ChunkPart(s, i) \subseteq 1..Len(s.mbuf)
           /\ Cardinality(ChunkPart(s, i)) = ChunkLen(s.x.blocksPerChunk)

\* C27: goroutine i writes only the destination positions of chunk i, the
\* blockLen * blocksPerChunk bytes that follow those of chunk i - 1 and of
\* the leading loop; the chunks overlap neither each other nor what the
\* leading loop and the sequential loop after the barrier write, so no
\* position is written by two goroutines or by a goroutine and the caller
C27_DisjointWrites ==
    [][/\ StepWrites
       /\ fr'.pc = "chunks" =>
              /\ Apart([x |-> x', pre |-> pre', mbuf |-> mbuf', fr |-> fr'])
              /\ \A i \in 1..Len(workers') :
                     InChunk([x |-> x', pre |-> pre', mbuf |-> mbuf',
                              workers |-> workers'], i)]_vars

\* two goroutines write at the same time, each in its own chunk of two
\* blocks, after a leading loop and before a third chunk and a sequential
\* tail
C27_Witness ==
    /\ fr.pc = "chunks"
    /\ pre.x.next = LeadSkip
    /\ x.blocksPerChunk = 2
    /\ fr.chunkCount = 3
    /\ Len(workers) = 2
    /\ \A i \in 1..2 : workers[i].pc = "loop" /\ workers[i].j = 1
    /\ TailPart(Now) # {}
    /\ \A i \in 1..2 :
           SubSeq(cbuf, workers[i].ni - blockLen + 1, workers[i].ni)
               # SubSeq(pre.c, workers[i].ni - blockLen + 1, workers[i].ni)

\* C28: from the step that reads the base counter to the Seek after the
\* barrier, no step of the chunk loop or of a goroutine changes a field of
\* the context: the goroutine is started with a copy of it, and what it
\* seeks and counts up is the copy
C28_PrivateCopy ==
    [][/\ (fr.pc = "idle" /\ fr'.pc = "chunks") =>
              fr'.baseBlock = GetCounter(x')
       /\ (fr.pc = "chunks" /\ fr'.pc = "chunks") =>
              /\ x' = x
              /\ Len(workers') > Len(workers) =>
                     workers'[Len(workers')].r = x
              /\ \A i \in 1..Len(workers) :
                     workers'[i].r # workers[i].r =>
                         /\ GetCounter(workers'[i].r) # GetCounter(x)
                            \/ workers[i].pc = "seek"
                         /\ workers'[i].r.rounds = x.rounds
                         /\ SubSeq(workers'[i].r.input, 1, 12)
                                = SubSeq(x.input, 1, 12)
                         /\ SubSeq(workers'[i].r.input, 15, 16)
                                = SubSeq(x.input, 15, 16)]_vars

\* the three goroutines of the call are over, the context is still on the
\* base counter and the copy of the last goroutine is six blocks on
C28_Witness ==
    /\ fr.pc = "chunks"
    /\ Len(workers) = 3
    /\ x.blocksPerChunk = 2
    /\ \A i \in 1..3 : workers[i].pc = "done"
    /\ GetCounter(x) = GetCounter(pre.x)
    /\ GetCounter(workers[3].r) = Add64(GetCounter(x), 6)
    /\ fr.baseBlock = Add64(GetCounter(x), 6)
    /\ x.next = blockLen
    /\ workers[3].r.output # x.output

\* the bytes that are left when the call under way reaches the chunk loop
Remaining == Len(mbuf) - (blockLen - pre.x.next)

\* C29: a call that hands out chunks with R bytes left and B blocks for a
\* goroutine starts floor(R / (64 * B)) goroutines; goroutine i (from 0)
\* is started on counter base + i * B and generates B consecutive blocks
\* on its own counter; the R mod (64 * B) bytes that are left, less than a
\* chunk, are written by the sequential loop
C29_ChunkPartition ==
    fr.pc \in {"chunks", "done"} /\ fr.chunkCount > 0 =>
        /\ fr.chunkCount = Remaining \div (blockLen * pre.x.blocksPerChunk)
        /\ Len(workers) = fr.chunk
        /\ fr.chunk <= fr.chunkCount
        /\ fr.pc = "done" => Len(workers) = fr.chunkCount
        /\ \A i \in 1..Len(workers) :
               /\ workers[i].blk
                      = Add64(GetCounter(pre.x),
                              (i - 1) * pre.x.blocksPerChunk)
               /\ workers[i].j <= pre.x.blocksPerChunk
               /\ workers[i].pc # "seek" =>
                      GetCounter(workers[i].r)
                          = Add64(workers[i].blk, workers[i].j)
               /\ workers[i].pc \in {"release", "exit", "done"} <=>
                      workers[i].j = pre.x.blocksPerChunk
        /\ Len(mbuf) - ChunksEnd
               = Remaining % (blockLen * pre.x.blocksPerChunk)
        /\ Len(mbuf) - ChunksEnd < blockLen * pre.x.blocksPerChunk
        /\ fr.chunk = fr.chunkCount => fr.n = ChunksEnd
        /\ fr.pc = "done" =>
               /\ ret.n = Len(mbuf)
               /\ SubSeq(cbuf, ChunksEnd + 1, Len(mbuf))
                      = SubSeq(Encrypt(UseParallel(pre.x, FALSE), CallSource,
                                       pre.c).c,
                               ChunksEnd + 1, Len(mbuf))

\* 4 + 257 bytes in chunks of two blocks: two goroutines were started on
\* the base counter and two blocks on, and a byte more than two blocks was
\* left to the sequential loop
C29_Witness ==
    /\ fr.pc = "done"
    /\ pre.x.blocksPerChunk = 2
    /\ pre.x.next = LeadSkip
    /\ Remaining = 2 * 128 + 1
    /\ Len(workers) = 2
    /\ workers[2].blk = Add64(workers[1].blk, 2)
    /\ workers[1].blk = GetCounter(pre.x)
    /\ Len(mbuf) - ChunksEnd = 1

\* the block after the last chunk of the call under way
NextBlock ==
    Add64(GetCounter(pre.x), fr.chunkCount * pre.x.blocksPerChunk)

\* the loop state of the caller after the barrier, when every goroutine is
\* over
Resumed ==
    AfterChunks(x, [c |-> cbuf, baseBlock |-> fr.baseBlock, n |-> fr.n])

\* C30: after the barrier of a call that handed N chunks of B blocks to
\* goroutines from base counter b, the context is on counter b + N * B
\* with the cursor at blockLen and the exhaustion flag clear; the
\* sequential loop writes the keystream from block b + N * B on, and the
\* call leaves the counter behind the blocks that loop generated
C30_AfterBarrier ==
    /\ (fr.pc = "chunks" /\ fr.chunk = fr.chunkCount /\ fr.wg = 0) =>
           /\ GetCounter(Resumed.x) = NextBlock
           /\ fr.baseBlock = NextBlock
           /\ Gt64(NextBlock, GetCounter(pre.x))
           /\ Resumed.x.next = blockLen
           /\ Resumed.idx = blockLen
           /\ ~Resumed.x.eof
           /\ Resumed.n = ChunksEnd
           /\ [Resumed.x EXCEPT !.input[13] = x.input[13],
                                !.input[14] = x.input[14]] = x
    /\ (fr.pc = "done" /\ fr.chunkCount > 0) =>
           /\ SubSeq(cbuf, ChunksEnd + 1, Len(mbuf))
                  = XorSeq(SubSeq(mbuf, ChunksEnd + 1, Len(mbuf)),
                           RefStream(Seek(Fresh(setup), NextBlock),
                                     Len(mbuf) - ChunksEnd))
           /\ GetCounter(x)
                  = Add64(NextBlock, NewBlocks(Len(mbuf) - ChunksEnd, blockLen))
           /\ x.next = IF Len(mbuf) = ChunksEnd THEN blockLen
                       ELSE ((Len(mbuf) - ChunksEnd - 1) % blockLen) + 1
           /\ x.eof <=> GetCounter(x) = Block0

\* the goroutines of three chunks of two blocks are over and the caller is
\* about to go on, six blocks after the base counter, with the 129 bytes
\* that are left
C30_Witness ==
    /\ fr.pc = "chunks"
    /\ fr.chunk = fr.chunkCount
    /\ fr.wg = 0
    /\ Len(workers) = 3
    /\ pre.x.blocksPerChunk = 2
    /\ NextBlock = Add64(GetCounter(x), 6)
    /\ GetCounter(Resumed.x) # GetCounter(x)
    /\ Len(mbuf) - ChunksEnd = 1
    /\ ENABLED EncryptFinish

\* how far ahead of a counter the wrap to 0 is looked for
WrapSpan == 16

\* how many blocks a context on counter b generates before its counter
\* wraps to 0, WrapSpan + 1 standing for more than WrapSpan
ToWrap(b) ==
    IF \E d \in 1..WrapSpan : Add64(b, d) = Block0
    THEN CHOOSE d \in 1..WrapSpan : Add64(b, d) = Block0
    ELSE WrapSpan + 1

\* the blocks that goroutine w has generated
BlocksOf(w) == {Add64(w.blk, t) : t \in 0..(w.j - 1)}

\* C31: chunks are handed to goroutines only when the counter after the
\* last chunk, base + N * B, is short of 2^64; when it reaches or passes
\* 2^64 no goroutine is started and the sequential loop does the whole
\* call.  No goroutine generates block 2^64 - 1 or lets its counter wrap,
\* and the exhaustion flag is set only by the sequential loop
C31_WrapCheck ==
    /\ fr.chunkCount > 0 =>
           fr.chunkCount * pre.x.blocksPerChunk < ToWrap(GetCounter(pre.x))
    /\ \A i \in 1..Len(workers) :
           /\ BlockLast \notin BlocksOf(workers[i])
           /\ Block0 \notin BlocksOf(workers[i]) \/ workers[i].blk = Block0
           /\ GetCounter(workers[i].r) # Block0 \/ workers[i].j = 0
           /\ ~workers[i].r.eof
    /\ fr.pc = "chunks" => ~x.eof
    /\ (/\ fr.pc = "done"
        /\ pre.x.parallel
        /\ Remaining > 2 * ChunkLen(pre.x.blocksPerChunk)
        /\ (Remaining \div ChunkLen(pre.x.blocksPerChunk))
               * pre.x.blocksPerChunk >= ToWrap(GetCounter(pre.x))) =>
           /\ workers = <<>>
           /\ fr.chunkCount = 0
           /\ \A r \in {Return(TailLoop([x |-> pre.x, idx |-> pre.x.next,
                                         n |-> 0, c |-> pre.c],
                                        CallSource, Len(mbuf)))} :
                  /\ cbuf = r.c
                  /\ x = r.x
                  /\ ret = [n |-> r.n, err |-> r.err, panicked |-> FALSE]
    /\ (fr.pc = "done" /\ x.eof) =>
           \E d \in 1..WrapSpan :
               /\ Add64(GetCounter(pre.x), d) = Block0
               /\ GetCounter(x) = Block0
               /\ ret.n > ChunksEnd

\* three chunks of one block from counter 2^64 - 3 would end on 2^64: the
\* sequential loop did the call, generated the last block and set the flag
C31_Witness ==
    /\ fr.pc = "done"
    /\ pre.x.parallel
    /\ pre.x.blocksPerChunk = 1
    /\ GetCounter(pre.x) = BlockLate
    /\ pre.x.next = blockLen
    /\ Remaining = 3 * blockLen
    /\ workers = <<>>
    /\ x.eof
    /\ ret.n = Len(mbuf)

\* what the call under way does when the sequential loop does all of it
AllSequential ==
    Return(TailLoop([x |-> pre.x, idx |-> pre.x.next, n |-> 0, c |-> pre.c],
                    CallSource, Len(mbuf)))

C33_Terminates ==
    (fr.pc # "done") ~>
        (/\ fr.pc = "done"
         /\ ~ret.panicked
         /\ \A i \in 1..Len(workers) : workers[i].pc = "done")

\* the chunk loop waits for the one place of the channel with two of its
\* three chunks left
C33_Witness ==
    /\ fr.pc = "chunks"
    /\ guard = [cap |-> 1, len |-> 1]
    /\ fr.chunkCount = 3
    /\ fr.chunk = 1
    /\ ~ENABLED EncryptLaunch
    /\ ENABLED NextPar

\* the cursor after n bytes are produced from cursor next: the bytes used
\* of the block that is buffered then
Cursor(next, n) ==
    IF n = 0 THEN next ELSE ((next + n - 1) % blockLen) + 1

\* C34: between calls the cursor is in 0..64.  It is 64 after New, Seek and
\* IvSetup; after a generating call it is the number of bytes used of the
\* buffered block, whether goroutines did part of the call or not, and the
\* next byte produced is the byte of the buffered block at the cursor
C34_Cursor ==
    /\ x.next \in 0..blockLen
    /\ calls = 0 => x.next = blockLen
    /\ op.name = "Seek" => x.next = blockLen
    /\ New(setup.key, setup.iv).next = blockLen
    /\ IvSetup(x, setup.iv).next = blockLen
    /\ op.name \in {"Encrypt", "Decrypt", "Read"} =>
           x.next = Cursor(pre.x.next, ret.n)
    /\ (op.name \in {"Keystream", "XORKeyStream"} /\ ~ret.panicked
            /\ ~x.eof) =>
           x.next = Cursor(pre.x.next, op.arg)
    /\ x.next < blockLen =>
           Read(x, Fill(1)).c = <<x.output[x.next + 1]>>

\* Encrypt of 200 bytes from cursor 60 in chunks of one block: 4 bytes of
\* the buffered block, three goroutines, and 4 bytes of a new block
C34_Witness ==
    /\ op = [name |-> "Encrypt", arg |-> 200]
    /\ pre.x.next = 60
    /\ pre.x.parallel
    /\ pre.x.blocksPerChunk = 1
    /\ ret.n = 200
    /\ x.next = 4

\* how many bytes a generating call produced: the n it returned, or the
\* length of its buffer when it returns none
Produced == IF op.name \in StreamOps THEN op.arg ELSE ret.n

RECURSIVE BlocksFrom(_, _, _)
\* blocks q to nb, counted from 1 at the counter of xx, one after the other
BlocksFrom(xx, q, nb) ==
    IF q > nb THEN <<>>
    ELSE Block(Seek(xx, Add64(GetCounter(xx), q - 1)).input, xx.rounds)
             \o BlocksFrom(xx, q + 1, nb)

\* the first n bytes of the keystream in order from the position of xx:
\* the bytes of its buffered block from the cursor on, then the blocks at
\* its counter, its counter + 1 and so on, each from its first byte
StreamFrom(xx, n) ==
    SubSeq(SubSeq(xx.output, xx.next + 1, blockLen)
               \o BlocksFrom(xx, 1, NewBlocks(n, xx.next)),
           1, n)

\* the block that is buffered after n bytes are produced from xx
LastBlock(xx, n) ==
    IF NewBlocks(n, xx.next) = 0 THEN xx.output
    ELSE Block(Seek(xx, Add64(GetCounter(xx),
                              NewBlocks(n, xx.next) - 1)).input,
               xx.rounds)

\* C35: a generating call takes the keystream bytes in order from the
\* cursor of the buffered block, generates a block only when the block
\* before it is used up, and leaves the counter, the cursor and the
\* buffered block at the byte after the last one it used, so that no byte
\* of the keystream is skipped or used twice, within a call that has a
\* leading loop, goroutines and a tail, or from one call to the next
C35_EveryByteOnce ==
    (/\ op.name \in GenOps
     /\ ~ret.panicked
     /\ op.name \in StreamOps => ~x.eof) =>
        /\ XorSeq(SubSeq(cbuf, 1, Produced), SubSeq(mbuf, 1, Produced))
               = StreamFrom(pre.x, Produced)
        /\ GetCounter(x)
               = Add64(GetCounter(pre.x), NewBlocks(Produced, pre.x.next))
        /\ x.next = Cursor(pre.x.next, Produced)
        /\ x.next < blockLen => x.output = LastBlock(pre.x, Produced)

\* Encrypt of 200 bytes one byte into a block: 63 bytes of the buffered
\* block, two goroutines, and 9 bytes of a new block
C35_Witness ==
    /\ op = [name |-> "Encrypt", arg |-> 200]
    /\ prev = [name |-> "Read", arg |-> 1]
    /\ pre.x.next = 1
    /\ pre.x.parallel
    /\ pre.x.blocksPerChunk = 1
    /\ ret.n = 200
    /\ x.next = 9
    /\ GetCounter(x) = Add64(GetCounter(pre.x), 3)

\* the last call has generated the block numbered 2^64 - 1: the counter
\* has gone from a high word of 0xFFFFFFFF round to 0
FinalBlockGenerated ==
    /\ Gt64(GetCounter(pre.x), GetCounter(x))
    /\ GetCounter(x) = Block0
    /\ At(pre.x.input, 13) = <<65535, 65535>>

\* C36: the exhaustion flag is clear after New, Seek and IvSetup; a
\* generating call leaves it set exactly when it was set before or the call
\* has generated the block numbered 2^64 - 1, whose step takes the high
\* counter word from 0xFFFFFFFF to 0, so a call that hands chunks to
\* goroutines leaves it clear; KeySetup, SetRounds, TuneParallel and
\* UseParallel leave it as it is
C36_ExhaustionFlag ==
    /\ calls = 0 => ~x.eof
    /\ ~New(setup.key, setup.iv).eof
    /\ op.name = "Seek" => ~x.eof
    /\ ~IvSetup(x, setup.iv).eof
    /\ op.name \in GenOps =>
           /\ x.eof = (pre.x.eof \/ FinalBlockGenerated)
           /\ Gt64(GetCounter(pre.x), GetCounter(x)) => FinalBlockGenerated
    /\ KeySetup(x, setup.key).eof = x.eof
    /\ SetRounds(x, 8).eof = x.eof
    /\ TuneParallel(x, 1, 0).eof = x.eof
    /\ UseParallel(x, ~x.parallel).eof = x.eof

\* Encrypt of 60 bytes after Seek(2^64 - 1) has generated the final block:
\* the flag is set while 4 bytes of the block are still to be used
C36_Witness ==
    /\ prev = [name |-> "Seek", arg |-> BlockLast]
    /\ op = [name |-> "Encrypt", arg |-> 60]
    /\ ~pre.x.eof
    /\ x.eof
    /\ x.next = 60
    /\ GetCounter(x) = Block0

\* what Encrypt of the bytes of the last call does from the state before it
\* with parallel processing disabled
EncryptSequential == Encrypt(UseParallel(pre.x, FALSE), mbuf, pre.c)

\* C37: when an Encrypt call on a context with parallel processing enabled
\* has returned, the context has the counter, the cursor and the exhaustion
\* flag, and when the cursor is below blockLen the buffered block, that the
\* call leaves with parallel processing disabled, the call has returned the
\* same n and err, and nothing else of the two contexts differs but the
\* parallel setting; a Read of a block that follows gives the same bytes, n
\* and err on both
C37_SameEndState ==
    (fr.pc = "done" /\ pre.x.parallel) =>
        \A s \in {EncryptSequential} :
            /\ GetCounter(x) = GetCounter(s.x)
            /\ x.next = s.x.next
            /\ x.eof = s.x.eof
            /\ x.next < blockLen => x.output = s.x.output
            /\ ret = Ret(s)
            /\ [x EXCEPT !.output = s.x.output, !.parallel = FALSE] = s.x
            /\ x.next < blockLen =>
                   Seen(Read(x, Fill(blockLen)))
                       = Seen(Read(s.x, Fill(blockLen)))

\* a call that ran three goroutines of two blocks each, after a leading
\* loop and before a tail of one byte, has returned with the cursor at 1
C37_Witness ==
    /\ fr.pc = "done"
    /\ pre.x.parallel
    /\ Len(workers) = 3
    /\ pre.x.blocksPerChunk = 2
    /\ pre.x.next = LeadSkip
    /\ Len(mbuf) - fr.n = 1
    /\ x.next = 1
    /\ ret = [n |-> Len(mbuf), err |-> "nil", panicked |-> FALSE]

\* the block that a context set up as setup says generates at the counter
\* of xx
BlockOfSetup(xx) ==
    Block(Seek(Fresh(setup), GetCounter(xx)).input, setup.rounds)

\* C38: KeySetup with a key of 16 or 32 bytes changes the constant and key
\* words and nothing else, SetRounds with a valid count changes the round
\* count and nothing else: counter, nonce, cursor, buffered block and
\* exhaustion flag stay.  A Read after either of them first delivers what
\* is left of the buffered block and then the block that the new key or
\* round count generates at the counter
C38_SetupKeepsPosition ==
    /\ (op.name = "KeySetup" /\ ~ret.panicked) =>
           /\ [x EXCEPT !.input = pre.x.input] = pre.x
           /\ \A k \in 12..15 : At(x.input, k) = At(pre.x.input, k)
           /\ SubSeq(x.input, 1, 12) = SubSeq(New(op.arg, setup.iv).input, 1, 12)
    /\ (op.name = "SetRounds" /\ ~ret.panicked) =>
           /\ [x EXCEPT !.rounds = pre.x.rounds] = pre.x
           /\ x.rounds = op.arg
    /\ (/\ op.name = "Read"
        /\ prev.name \in {"KeySetup", "SetRounds"}
        /\ ~ret.panicked) =>
           SubSeq(cbuf, 1, ret.n)
               = SubSeq(SubSeq(pre.x.output, pre.x.next + 1, blockLen)
                            \o (IF ret.n > blockLen - pre.x.next
                                THEN BlockOfSetup(pre.x) ELSE <<>>),
                        1, ret.n)

\* Read of one byte, KeySetup with a 16-byte key on a context that had a
\* 32-byte key, and Read of 64 bytes: 63 bytes of the block of the old key
\* and the first byte of the block of the new one
C38_Witness ==
    /\ op = [name |-> "Read", arg |-> blockLen]
    /\ prev = [name |-> "KeySetup", arg |-> Ramp(1, 16)]
    /\ setup = [SetupList[1] EXCEPT !.key = Ramp(1, 16)]
    /\ pre.x.next = 1
    /\ ret.n = blockLen
    /\ x.next = 1
    /\ x.output # pre.x.output
    /\ cbuf[blockLen] = x.output[1]

\* C39: Encrypt, and Decrypt and Read through it, write the first n bytes
\* of the destination, n being the count returned, and no other: when the
\* destination is longer than the source, or the keystream ends before the
\* source does, the bytes of the destination from index n on are what they
\* were, the destination keeps its length, and a call that panics writes
\* nothing
C39_WritesFirstN ==
    op.name \in {"Encrypt", "Decrypt", "Read"} =>
        /\ Len(cbuf) = Len(pre.c)
        /\ ret.n <= Len(mbuf)
        /\ SubSeq(cbuf, ret.n + 1, Len(cbuf))
               = SubSeq(pre.c, ret.n + 1, Len(pre.c))
        /\ ret.panicked => cbuf = pre.c
        /\ (~ret.panicked /\ ret.err = "nil") => ret.n = Len(mbuf)

\* Encrypt of 60 bytes into a destination of 64 bytes when 4 bytes of the
\* keystream are left: 4 bytes are written and 60 are left as they were
C39_Witness ==
    /\ op = [name |-> "Encrypt", arg |-> 60]
    /\ Len(mbuf) = 60
    /\ Len(cbuf) = 64
    /\ pre.x.eof
    /\ pre.x.next = 60
    /\ ret = [n |-> 4, err |-> "EOF", panicked |-> FALSE]
    /\ SubSeq(cbuf, 5, 64) = Fill(60)
    /\ SubSeq(cbuf, 1, 4) # Fill(4)

\* C40: on a context that is not exhausted, Encrypt, Decrypt and Read with
\* an empty source return 0 and nil, hand no chunk to a goroutine, write
\* nothing, and leave the counter, the cursor, the buffered block and the
\* exhaustion flag, and the rest of the context, as they were: no block is
\* generated, not even when the cursor is at blockLen
C40_EmptySource ==
    /\ (/\ op.name \in {"Encrypt", "Decrypt"}
        /\ op.arg = 0
        /\ ~Exhausted(pre.x)) =>
           /\ ret = [n |-> 0, err |-> "nil", panicked |-> FALSE]
           /\ cbuf = pre.c
           /\ x = pre.x
    /\ ~Exhausted(x) =>
           /\ Read(x, <<>>)
                  = [x |-> x, c |-> <<>>, n |-> 0, err |-> "nil",
                     panicked |-> FALSE]
           /\ ~HandsOut(<<>>, Fill(4), AfterLead(x, <<>>, Fill(4)))

\* Encrypt of no bytes into a destination of 4 bytes, after Seek, on a
\* context with parallel processing enabled and the cursor at blockLen
C40_Witness ==
    /\ op = [name |-> "Encrypt", arg |-> 0]
    /\ prev.name = "Seek"
    /\ mbuf = <<>>
    /\ cbuf = Fill(4)
    /\ pre.x.next = blockLen
    /\ pre.x.parallel
    /\ ~pre.x.eof
    /\ ret = NoRet
    /\ x = pre.x

====
